---- MODULE Spec2Model ----
(***************************************************************************)
(* Document processing pipeline of the agentic compliance-mapping system:  *)
(* the Lambda stage handlers (intake, OCR completion, clause extraction,   *)
(* semantic mapping, agentic reasoning, report generation), the stores     *)
(* they write (document records, blobs, clause / entity / embedding /      *)
(* mapping / analysis / report rows), the event bus and the retry wrapper. *)
(* One action per handler invocation; every collaborator call of a handler *)
(* may fail, the failing call being an input of the action.                *)
(***************************************************************************)
EXTENDS Integers, Sequences, FiniteSets, TLC

\* ---------------------------------------------------------------- bounds
MaxDocs == 2          \* documents ever uploaded
MaxCalls == 4         \* handler invocations in one behaviour
MaxClauses == 2       \* clauses the extractor returns for one document
MaxRegs == 2          \* regulations in the regulation embedding store
MaxDownstreamCalls == 3   \* handler invocations on a database with clause rows
MaxPos == 3           \* largest character offset of an entity handed to the merge
MaxEntities == 3      \* entities in a list handed to the merge
MaxMerges == 2        \* calls of the merge in a row
MaxText == 3          \* characters in a clause text
MaxFound == 2         \* entities the patterns and spaCy find in one text
MaxHits == 1          \* keywords, and patterns, of one category found in a clause
MaxBatch == 3         \* clauses in one batch
MaxLines == 2         \* LINE blocks of one page
MaxPages == 3         \* PAGE blocks of one Textract result
MaxPieces == 3        \* pieces a document text is put together from
MaxStageClauses == 2  \* clauses the LLM, and the patterns, yield for one document
MaxMappings == 3      \* mappings handed to an agent called alone
MaxWords == 4         \* words of a text handed to chunk_text
MaxChunkSize == 3     \* chunk_size of a call of chunk_text
MaxOverlap == 3       \* overlap of a call of chunk_text

\* ------------------------------------------------------ program constants
max_retries == 2      \* @retry_with_backoff(max_retries=2)
backoff_factor == 1   \* retry_with_backoff(..., backoff_factor: float = 1.0)

\* The database default of RAW_DOCUMENTS.processing_status: create_document
\* does not name the column.
DefaultStatus == "uploaded"

\* document_ingestion/handler.py uses datetime and timezone in
\* _publish_ingestion_event without importing them.
IngestionDatetimeImported == FALSE

\* clause_extraction/handler.py uses datetime and timezone in
\* _extract_clauses; the only import of them is local to
\* _publish_extraction_event.
ExtractionDatetimeImported == FALSE

\* config.processing.similarity_threshold (0.75), in hundredths
similarity_threshold == 75
min_paragraph_length == 50   \* len(p.strip()) > 50
min_document_length == 100   \* len(document_text.strip()) < 100

DocIds == 1..MaxDocs
Regulations == 1..MaxRegs

\* VECTORS.REGULATION_EMBEDDINGS.regulation_category of the regulations of
\* the store: one safety regulation, one environmental, the rest of another
\* category.
RegulationCategory(reg) ==
    CASE reg = 1 -> "safety_compliance"
      [] reg = 2 -> "environmental_compliance"
      [] OTHER -> "operational_compliance"

\* Cosine similarities (hundredths) a regulation can have to a clause: below
\* the threshold, between the threshold and the agents' gap levels, above.
SimilarityScores == { 60, 77, 90 }

\* The lifecycle order of the status field.
StatusOrder == << "uploaded", "ocr_completed", "processing",
                  "clause_extraction_completed", "semantic_mapping_completed",
                  "agentic_reasoning_completed", "report_generated" >>

Statuses == { StatusOrder[i] : i \in 1..Len(StatusOrder) } \cup { "failed" }

Rank(s) == IF s \in { StatusOrder[i] : i \in 1..Len(StatusOrder) }
           THEN CHOOSE i \in 1..Len(StatusOrder) : StatusOrder[i] = s
           ELSE 0

Stages == { "document_ingestion", "ocr_completion", "clause_extraction",
            "semantic_mapping", "agentic_reasoning", "report_generation" }

VARIABLES
    status,         \* RAW_DOCUMENTS: document id -> processing_status, "absent" without a row
    rawBlobs,       \* raw bucket: document ids with a stored raw file
    ocrJobs,        \* Textract jobs started, by document id
    processed,      \* processed bucket: <<document id, processing stage>> -> content, "none" without an object
    clauseRows,     \* PROCESSED.CLAUSES, in insertion order
    entityRows,     \* PROCESSED.ENTITIES, in insertion order
    embeddingRows,  \* VECTORS.CLAUSE_EMBEDDINGS, in insertion order
    mappingRows,    \* ANALYTICS.COMPLIANCE_MAPPINGS, in insertion order
    analysisRows,   \* ANALYTICS.ANALYSIS_RESULTS, in insertion order
    reportRows,     \* ANALYTICS.REPORTS, in insertion order
    reportBlobs,    \* reports bucket: report ids with a stored report
    events,         \* entries put on the event bus, in order
    nextDoc,        \* the next document id generate_document_id returns
    calls,          \* handler invocations so far
    resp,           \* outcome of the latest handler invocation
    applied         \* the latest call of a library function: its name, argument and result

vars == << status, rawBlobs, ocrJobs, processed, clauseRows, entityRows,
           embeddingRows, mappingRows, analysisRows, reportRows, reportBlobs,
           events, nextDoc, calls, resp, applied >>

\* The state of the pipeline: everything but the library call.
pipeline == << status, rawBlobs, ocrJobs, processed, clauseRows, entityRows,
               embeddingRows, mappingRows, analysisRows, reportRows,
               reportBlobs, events, nextDoc, calls, resp >>

\* The stores as one value, threaded through the statements of a handler.
\* trace is the list of effects of the running invocation.
Stores == [ status |-> status, rawBlobs |-> rawBlobs, ocrJobs |-> ocrJobs,
            processed |-> processed, clauseRows |-> clauseRows,
            entityRows |-> entityRows, embeddingRows |-> embeddingRows,
            mappingRows |-> mappingRows, analysisRows |-> analysisRows,
            reportRows |-> reportRows, reportBlobs |-> reportBlobs,
            events |-> events, nextDoc |-> nextDoc, trace |-> << >> ]

\* resp: the stage and document of the invocation, how it ended (out is
\* "success" or "failure" for a returned response, "raise" for an exception
\* that left the handler), the error code of the response, the calls of the
\* handler body the retry wrapper made and the waits between them, what
\* raised in the try block of the last execution of the body (a collaborator
\* call or an exception of the handler's own code, "none" when nothing did),
\* the input the body worked on, and the effects of the invocation in order.
NoResp == [ stage |-> "none", doc |-> 0, out |-> "none", code |-> "none",
            attempts |-> 0, delays |-> << >>, outs |-> << >>,
            cause |-> "none", input |-> "none", trace |-> << >> ]

\* applied: fn is the function called ("none" before any call), arg what it
\* was called on, result what it returned, n how many calls were made in a
\* row, each on the result of the one before.
Applied(fn, arg, result, n) == [ fn |-> fn, arg |-> arg, result |-> result, n |-> n ]

NoCall == Applied("none", << >>, << >>, 0)

\* The stores before the first invocation.
PipelineInit ==
    /\ status = [ d \in DocIds |-> "absent" ]
    /\ rawBlobs = {}
    /\ ocrJobs = {}
    /\ processed = [ k \in DocIds \X { "ocr_results", "clause_extraction" } |-> "none" ]
    /\ clauseRows = << >>
    /\ entityRows = << >>
    /\ embeddingRows = << >>
    /\ mappingRows = << >>
    /\ analysisRows = << >>
    /\ reportRows = << >>
    /\ reportBlobs = {}
    /\ events = << >>
    /\ nextDoc = 1
    /\ calls = 0
    /\ resp = NoResp

Init ==
    /\ applied = NoCall
    /\ PipelineInit

\* ------------------------------------------------------------ collaborators

Effect(op, arg) == [ op |-> op, arg |-> arg ]

\* DocumentRepository.update_document_status: an unconditional UPDATE of the
\* row with this document id; no row, no change.
update_document_status(st, d, s) ==
    [ st EXCEPT !.status = IF st.status[d] = "absent" THEN @
                           ELSE [ @ EXCEPT ![d] = s ],
                !.trace = Append(@, Effect("status", s)) ]

\* DocumentRepository.create_document: INSERT of the document row; the row
\* starts with the default status.
create_document(st, d) ==
    [ st EXCEPT !.status = [ @ EXCEPT ![d] = DefaultStatus ],
                !.trace = @ \o << Effect("persist", "document"),
                                  Effect("status", DefaultStatus) >> ]

\* DocumentStorage.store_raw_document
store_raw_document(st, d) ==
    [ st EXCEPT !.rawBlobs = @ \cup { d },
                !.trace = Append(@, Effect("persist", "raw")) ]

\* DocumentStorage.store_processed_document: the key is
\* processed/<document id>/<stage>.json, a later write replaces the object.
store_processed_document(st, d, stage, content) ==
    [ st EXCEPT !.processed = [ @ EXCEPT ![<< d, stage >>] = content ],
                !.trace = Append(@, Effect("persist", stage)) ]

\* eventbridge.put_events with one entry
put_events(st, d, s, stage) ==
    [ st EXCEPT !.events = Append(@, [ document_id |-> d, status |-> s,
                                       pipeline_stage |-> stage ]),
                !.trace = Append(@, Effect("emit", s)) ]

\* eventbridge.put_events raising, or the entry never being built: nothing
\* reaches the bus.
put_events_failed(st, why) ==
    [ st EXCEPT !.trace = Append(@, Effect("emit_failed", why)) ]

\* textract.start_document_text_detection
start_document_text_detection(st, d) ==
    [ st EXCEPT !.ocrJobs = @ \cup { d },
                !.trace = Append(@, Effect("request", "ocr")) ]

\* The result of one execution of a handler body: the stores after it, how
\* it ended, and what raised in the try block (the collaborator call, or the
\* exception the handler's own code raised; "none" when nothing did).
Return(st, out, code, cause) ==
    [ st |-> st, out |-> out, code |-> code, cause |-> cause ]

\* A fault: the first collaborator call of the try block that raises ("none":
\* every call succeeds), for a call made once per clause the clause and the
\* regulation it raises at, and whether the status update of the except
\* block raises.
Fault(call, at, reg, mark) == [ call |-> call, at |-> at, reg |-> reg, mark |-> mark ]

NoFault == Fault("none", 0, 0, FALSE)

\* ------------------------------------- document_ingestion/handler.py

\* DocumentIngestionHandler._publish_ingestion_event: the whole body is in a
\* try block whose except logs and returns. Building event_detail reads
\* datetime, which the module does not import, before put_events is reached.
publish_ingestion_event(st, d, s, busFails) ==
    IF ~IngestionDatetimeImported THEN put_events_failed(st, "NameError")
    ELSE IF busFails THEN put_events_failed(st, "put_events")
    ELSE put_events(st, d, s, "document_ingestion")

IngestionFaults ==
    { Fault(c, 0, 0, FALSE) :
        c \in { "none", "store_raw_document", "create_document",
                "start_document_text_detection", "put_events" } }

\* process_document_upload with the raw file stored before it is validated.
process_document_upload_body_stores_before_validation(st, file, f) ==
    LET d == st.nextDoc
        failed(s, cause) == Return(s, "failure", "PROCESSING_ERROR", cause)
    IN  IF file = "unreadable" THEN failed(st, "ValueError")
        ELSE LET s0 == [ st EXCEPT !.nextDoc = @ + 1 ]
             IN  IF f.call = "store_raw_document" THEN failed(s0, f.call)
        ELSE LET s1 == store_raw_document(s0, d)
             IN  IF file = "invalid"
                 THEN Return(s1, "failure", "INVALID_FILE", "none")
        ELSE IF f.call = "create_document" THEN failed(s1, f.call)
        ELSE LET s2 == create_document(s1, d)
             IN  IF f.call = "start_document_text_detection" THEN failed(s2, f.call)
        ELSE LET s3 == start_document_text_detection(s2, d)
                 s4 == publish_ingestion_event(s3, d, "uploaded",
                                               f.call = "put_events")
             IN  Return(s4, "success", "OK", "none")

\* DocumentIngestionHandler.process_document_upload, the function the
\* decorators wrap. file is what the event carries: "unreadable" (no body and
\* no Records, or the download raises), "invalid" (validate_pdf_file rejects
\* it) or "valid".
process_document_upload_body(st, file, f) ==
    LET d == st.nextDoc
        failed(s, cause) == Return(s, "failure", "PROCESSING_ERROR", cause)
    IN  IF file = "unreadable" THEN failed(st, "ValueError")
        ELSE IF file = "invalid"
             THEN Return(st, "failure", "INVALID_FILE", "none")
        ELSE LET s0 == [ st EXCEPT !.nextDoc = @ + 1 ]
             IN  IF f.call = "store_raw_document" THEN failed(s0, f.call)
        ELSE LET s1 == store_raw_document(s0, d)
             IN  IF f.call = "create_document" THEN failed(s1, f.call)
        ELSE LET s2 == create_document(s1, d)
             IN  IF f.call = "start_document_text_detection" THEN failed(s2, f.call)
        ELSE LET s3 == start_document_text_detection(s2, d)
                 s4 == publish_ingestion_event(s3, d, "uploaded",
                                               f.call = "put_events")
             IN  Return(s4, "success", "OK", "none")

OcrFaults ==
    { Fault(c, 0, 0, m) :
        c \in { "none", "get_document_text_detection", "update_document_status",
                "store_processed_document", "put_events" },
        m \in BOOLEAN }

\* DocumentIngestionHandler.process_ocr_completion. ev is the document id of
\* the event and the text Textract found ("empty" or "text").
process_ocr_completion_body(st, ev, f) ==
    LET d == ev.document_id
        \* except: update_document_status(document_id, 'failed'), then the
        \* error response; the update raising leaves the handler.
        except(s, cause) ==
            IF f.mark THEN Return(s, "raise", "none", cause)
            ELSE Return(update_document_status(s, d, "failed"),
                        "failure", "OCR_PROCESSING_ERROR", cause)
    IN  IF f.call = "get_document_text_detection" THEN except(st, f.call)
        ELSE IF f.call = "update_document_status" THEN except(st, f.call)
        ELSE LET s1 == update_document_status(st, d, "processing")
             IN  IF f.call = "store_processed_document" THEN except(s1, f.call)
        ELSE LET s2 == store_processed_document(s1, d, "ocr_results", ev.text)
                 s3 == publish_ingestion_event(s2, d, "ocr_completed",
                                               f.call = "put_events")
             IN  Return(s3, "success", "OK", "none")

\* -------------------------------------- clause_extraction/handler.py

\* ClauseExtractionHandler._publish_extraction_event: imports datetime
\* locally; a put_events failure is logged and not raised.
publish_extraction_event(st, d, s, busFails) ==
    IF busFails THEN put_events_failed(st, "put_events")
    ELSE put_events(st, d, s, "clause_extraction")

\* The clause ids _extract_clauses gives the n clauses of document d:
\* f"{document_id}_clause_{i+1:03d}".
ClauseIdsOf(d, n) == [ i \in 1..n |-> << d, i >> ]

\* ClauseExtractionHandler._extract_clauses: TRUE when it raises. No text
\* raises ValueError; otherwise the clauses are built and the returned dict
\* reads datetime for processing_timestamp, a name the module never binds.
extract_clauses_raises(text) ==
    \/ text # "text"
    \/ ~ExtractionDatetimeImported

\* ClauseExtractionHandler._store_extraction_results after the S3 write: one
\* bulk insert of the clause rows, one of the entity rows (ne entities per
\* clause, each with a new uuid); an empty list is not inserted.
ClauseRowsOf(d, n) ==
    [ i \in 1..n |-> [ clause_id |-> << d, i >>, document_id |-> d ] ]

EntityRowsOf(st, d, n, ne) ==
    [ k \in 1..(n * ne) |->
        [ entity_id |-> Len(st.entityRows) + k,
          clause_id |-> << d, ((k - 1) \div ne) + 1 >>,
          ordinal |-> ((k - 1) % ne) + 1 ] ]

bulk_insert_clauses(st, d, n) ==
    IF n = 0 THEN st
    ELSE [ st EXCEPT !.clauseRows = @ \o ClauseRowsOf(d, n),
                     !.trace = Append(@, Effect("persist", "clauses")) ]

bulk_insert_entities(st, d, n, ne) ==
    IF n * ne = 0 THEN st
    ELSE [ st EXCEPT !.entityRows = @ \o EntityRowsOf(st, d, n, ne),
                     !.trace = Append(@, Effect("persist", "entities")) ]

ExtractionFaults ==
    { Fault(c, 0, 0, m) :
        c \in { "none", "get_document", "get_processed_document",
                "store_processed_document", "bulk_insert_clauses",
                "bulk_insert_entities", "update_document_status", "put_events" },
        m \in BOOLEAN }

\* ClauseExtractionHandler.process_clause_extraction, the function the
\* decorators wrap. ev is the document id of the event, the number of clauses
\* the extractor returns for the text and the entities found per clause.
process_clause_extraction_body(st, ev, f) ==
    LET d == ev.document_id
        n == ev.clauses
        ne == ev.entities
        text == st.processed[<< d, "ocr_results" >>]
        \* except: update_document_status(document_id, 'failed'), then the
        \* error response; the update raising leaves the function.
        except(s, cause) ==
            IF f.mark THEN Return(s, "raise", "none", cause)
            ELSE Return(update_document_status(s, d, "failed"),
                        "failure", "CLAUSE_EXTRACTION_ERROR", cause)
    IN  IF f.call = "get_document" THEN except(st, f.call)
        ELSE IF st.status[d] = "absent" THEN except(st, "ValueError")
        ELSE IF f.call = "get_processed_document" THEN except(st, f.call)
        ELSE IF text = "none" THEN except(st, "FileNotFoundError")
        ELSE IF extract_clauses_raises(text)
             THEN except(st, IF text # "text" THEN "ValueError" ELSE "NameError")
        ELSE IF f.call = "store_processed_document" THEN except(st, f.call)
        ELSE LET s1 == store_processed_document(st, d, "clause_extraction", "text")
             IN  IF f.call = "bulk_insert_clauses" /\ n > 0 THEN except(s1, f.call)
        ELSE LET s2 == bulk_insert_clauses(s1, d, n)
             IN  IF f.call = "bulk_insert_entities" /\ n * ne > 0
                 THEN except(s2, f.call)
        ELSE LET s3 == bulk_insert_entities(s2, d, n, ne)
             IN  IF f.call = "update_document_status" THEN except(s3, f.call)
        ELSE LET s4 == update_document_status(s3, d, "clause_extraction_completed")
                 s5 == publish_extraction_event(s4, d, "clause_extraction_completed",
                                                f.call = "put_events")
             IN  Return(s5, "success", "OK", "none")

\* --------------------------------------- semantic_mapping/handler.py

\* SemanticMappingHandler._publish_mapping_event: put_events with no try
\* around it.
publish_mapping_event(st, d, s) == put_events(st, d, s, "semantic_mapping")

\* VectorStore.store_clause_embedding: INSERT INTO VECTORS.CLAUSE_EMBEDDINGS
store_clause_embedding(st, c) ==
    [ st EXCEPT !.embeddingRows = Append(@, [ embedding_id |-> c, clause_id |-> c ]),
                !.trace = Append(@, Effect("persist", "embedding")) ]

\* A row find_similar_regulations returns: the regulation, its category and
\* the cosine similarity to the clause embedding, in hundredths.
SimilarRegulation(reg, score) ==
    [ regulation_id |-> reg, regulation_category |-> RegulationCategory(reg),
      similarity_score |-> score ]

\* INSERT INTO ANALYTICS.COMPLIANCE_MAPPINGS of one mapping, mapping_data
\* built from the clause and the regulation row.
insert_mapping(st, c, reg) ==
    [ st EXCEPT !.mappingRows =
                    Append(@, [ mapping_id |-> << c, reg.regulation_id >>,
                                clause_id |-> c,
                                regulation_id |-> reg.regulation_id,
                                similarity_score |-> reg.similarity_score,
                                compliance_category |-> reg.regulation_category ]),
                !.trace = Append(@, Effect("persist", "mapping")) ]

\* The rows of a table with a given document id, in order.
RowsOfDocument(rows, d) == SelectSeq(rows, LAMBDA r : r.document_id = d)

\* VectorStore.find_similar_regulations: the regulations of the store whose
\* similarity to the embedding is at least the threshold, as a list of rows
\* (regs: the regulations found, all at similarity score).
RECURSIVE RegList(_, _)
RegList(regs, score) ==
    IF regs = {} \/ score < similarity_threshold THEN << >>
    ELSE LET r == CHOOSE x \in regs : \A y \in regs : x <= y
         IN  << SimilarRegulation(r, score) >> \o RegList(regs \ { r }, score)

\* The inner loop of process_semantic_mapping: one INSERT per regulation
\* found for clause c, from the j-th on. ok is FALSE when an INSERT raised.
RECURSIVE StoreMappings(_, _, _, _, _)
StoreMappings(st, c, list, j, failAt) ==
    IF j > Len(list) THEN [ st |-> st, ok |-> TRUE ]
    ELSE IF list[j].regulation_id = failAt THEN [ st |-> st, ok |-> FALSE ]
    ELSE StoreMappings(insert_mapping(st, c, list[j]), c, list, j + 1, failAt)

\* The clause loop of process_semantic_mapping, from the i-th clause on:
\* generate the embedding, store it, find the similar regulations, store one
\* mapping per regulation.
RECURSIVE MapClauses(_, _, _, _, _)
MapClauses(st, clauses, i, found, f) ==
    IF i > Len(clauses) THEN [ st |-> st, ok |-> TRUE ]
    ELSE LET c == clauses[i].clause_id
             here(call) == f.call = call /\ f.at = i
         IN  IF here("generate_embedding") \/ here("store_clause_embedding")
             THEN [ st |-> st, ok |-> FALSE ]
             ELSE LET s1 == store_clause_embedding(st, c)
                  IN  IF here("find_similar_regulations")
                      THEN [ st |-> s1, ok |-> FALSE ]
                      ELSE LET m == StoreMappings(s1, c, found, 1,
                                        IF here("insert_mapping") THEN f.reg ELSE 0)
                           IN  IF ~m.ok THEN m
                               ELSE MapClauses(m.st, clauses, i + 1, found, f)

MappingFaults ==
    { Fault(c, 0, 0, FALSE) : c \in { "none", "query_clauses", "put_events" } }
    \cup { Fault(c, i, 0, FALSE) :
             c \in { "generate_embedding", "store_clause_embedding",
                     "find_similar_regulations" },
             i \in 1..MaxClauses }
    \cup { Fault("insert_mapping", i, r, FALSE) :
             i \in 1..MaxClauses, r \in Regulations }

\* SemanticMappingHandler.process_semantic_mapping. ev is the document id of
\* the event, the regulations the store holds near its clauses and their
\* similarity. The except block returns the error response and touches
\* nothing.
process_semantic_mapping_body(st, ev, f) ==
    LET d == ev.document_id
        failed(s, cause) == Return(s, "failure", "SEMANTIC_MAPPING_ERROR", cause)
    IN  IF f.call = "query_clauses" THEN failed(st, f.call)
        ELSE LET m == MapClauses(st, RowsOfDocument(st.clauseRows, d), 1,
                                 RegList(ev.regs, ev.score), f)
             IN  IF ~m.ok THEN failed(m.st, f.call)
        ELSE IF f.call = "put_events"
             THEN failed(put_events_failed(m.st, "put_events"), "put_events")
        ELSE Return(publish_mapping_event(m.st, d, "semantic_mapping_completed"),
                    "success", "OK", "none")

\* -------------------------------------- agentic_reasoning/handler.py

\* AgenticReasoningHandler._publish_reasoning_event: put_events with no try
\* around it.
publish_reasoning_event(st, d, s) == put_events(st, d, s, "agentic_reasoning")

\* Scores are exact fractions num / den with den > 0.
Frac(n, d) == [ num |-> n, den |-> d ]

FracLess(a, b) == a.num * b.den < b.num * a.den

FracEq(a, b) == a.num * b.den = b.num * a.den

FracMax(a, b) == IF FracLess(a, b) THEN b ELSE a

FracMin(a, b) == IF FracLess(b, a) THEN b ELSE a

FracAdd(a, b) == Frac(a.num * b.den + b.num * a.den, a.den * b.den)

\* round(x, 3) of a score x >= 0: the nearest multiple of 1/1000.
Round3(x) == Frac((2000 * x.num + x.den) \div (2 * x.den), 1000)

\* sum(risk_scores)
RECURSIVE SumSeq(_)
SumSeq(q) == IF q = << >> THEN Frac(0, 1) ELSE FracAdd(Head(q), SumSeq(Tail(q)))

\* dict.get(key, default)
Get(result, key, default) ==
    IF key \in DOMAIN result THEN result[key] ELSE default

\* The mappings query of process_agentic_reasoning: the mapping rows whose
\* clause is a clause of the document.
MappingsOfDocument(st, d) ==
    SelectSeq(st.mappingRows,
              LAMBDA m : \E i \in 1..Len(st.clauseRows) :
                            /\ st.clauseRows[i].document_id = d
                            /\ st.clauseRows[i].clause_id = m.clause_id)

\* SafetyComplianceAgent.analyze_compliance over the mappings of every
\* category.
safety_analyze_compliance_counts_all_mappings(mappings) ==
    LET safety_mappings == mappings
        low == SelectSeq(safety_mappings, LAMBDA m : m.similarity_score < 80)
        gaps == [ i \in 1..Len(low) |->
                    [ clause_id |-> low[i].clause_id, gap_type |-> "low_similarity",
                      severity |-> "medium" ] ]
        n == IF Len(safety_mappings) > 1 THEN Len(safety_mappings) ELSE 1
        risk_score == FracMax(Frac(3, 10), Frac(n - Len(gaps), n))
    IN  [ compliance_gaps |-> gaps,
          risk_score |-> risk_score,
          risk_level |-> IF FracLess(risk_score, Frac(6, 10)) THEN "high"
                         ELSE IF FracLess(risk_score, Frac(8, 10)) THEN "medium"
                         ELSE "low",
          mappings_analyzed |-> Len(safety_mappings) ]

\* SafetyComplianceAgent.analyze_compliance
safety_analyze_compliance(mappings) ==
    LET safety_mappings ==
            SelectSeq(mappings,
                      LAMBDA m : m.compliance_category = "safety_compliance")
        low == SelectSeq(safety_mappings, LAMBDA m : m.similarity_score < 80)
        gaps == [ i \in 1..Len(low) |->
                    [ clause_id |-> low[i].clause_id, gap_type |-> "low_similarity",
                      severity |-> "medium" ] ]
        n == IF Len(safety_mappings) > 1 THEN Len(safety_mappings) ELSE 1
        risk_score == FracMax(Frac(3, 10), Frac(n - Len(gaps), n))
    IN  [ compliance_gaps |-> gaps,
          risk_score |-> risk_score,
          risk_level |-> IF FracLess(risk_score, Frac(6, 10)) THEN "high"
                         ELSE IF FracLess(risk_score, Frac(8, 10)) THEN "medium"
                         ELSE "low",
          mappings_analyzed |-> Len(safety_mappings) ]

\* EnvironmentalAgent.analyze_compliance
environmental_analyze_compliance(mappings) ==
    LET env_mappings ==
            SelectSeq(mappings,
                      LAMBDA m : m.compliance_category = "environmental_compliance")
        low == SelectSeq(env_mappings, LAMBDA m : m.similarity_score < 75)
        gaps == [ i \in 1..Len(low) |->
                    [ clause_id |-> low[i].clause_id,
                      gap_type |-> "environmental_alignment",
                      severity |-> "high" ] ]
        n == IF Len(env_mappings) > 1 THEN Len(env_mappings) ELSE 1
        risk_score == FracMax(Frac(2, 10), Frac(n - Len(gaps), n))
    IN  [ compliance_gaps |-> gaps,
          risk_score |-> risk_score,
          risk_level |-> IF FracLess(risk_score, Frac(5, 10)) THEN "critical"
                         ELSE IF FracLess(risk_score, Frac(7, 10)) THEN "high"
                         ELSE "medium",
          mappings_analyzed |-> Len(env_mappings) ]

\* RiskAssessmentAgent.analyze_compliance without the early return for an
\* empty list (the ratio of an empty list taken as 0).
risk_analyze_compliance_no_early_return(mappings) ==
    LET total_mappings == Len(mappings)
        low_similarity_count ==
            Len(SelectSeq(mappings, LAMBDA m : m.similarity_score < 70))
        overall_risk ==
            IF total_mappings = 0 THEN Frac(2, 10)
            ELSE FracMin(Frac(1, 1),
                         FracAdd(Frac(low_similarity_count, total_mappings),
                                 Frac(2, 10)))
    IN  [ overall_risk_score |-> Round3(overall_risk),
          risk_level |-> IF FracLess(Frac(8, 10), overall_risk) THEN "critical"
                         ELSE IF FracLess(Frac(6, 10), overall_risk) THEN "high"
                         ELSE IF FracLess(Frac(4, 10), overall_risk) THEN "medium"
                         ELSE "low",
          risk_factors |-> << low_similarity_count >>,
          recommendations |->
              IF FracLess(Frac(6, 10), overall_risk)
              THEN << "Comprehensive compliance review recommended" >>
              ELSE << "Monitor compliance status" >>,
          mappings_analyzed |-> total_mappings ]

\* RiskAssessmentAgent.analyze_compliance: its score is returned under the
\* key overall_risk_score.
risk_analyze_compliance(mappings) ==
    LET total_mappings == Len(mappings)
        low_similarity_count ==
            Len(SelectSeq(mappings, LAMBDA m : m.similarity_score < 70))
        overall_risk ==
            FracMin(Frac(1, 1),
                    FracAdd(Frac(low_similarity_count, total_mappings), Frac(2, 10)))
    IN  IF total_mappings = 0
        THEN [ overall_risk_score |-> Frac(1, 1),
               risk_level |-> "critical",
               risk_factors |-> << "No compliance mappings found" >>,
               recommendations |-> << "Immediate compliance review required" >> ]
        ELSE [ overall_risk_score |-> Round3(overall_risk),
               risk_level |-> IF FracLess(Frac(8, 10), overall_risk) THEN "critical"
                              ELSE IF FracLess(Frac(6, 10), overall_risk) THEN "high"
                              ELSE IF FracLess(Frac(4, 10), overall_risk) THEN "medium"
                              ELSE "low",
               risk_factors |-> << low_similarity_count >>,
               recommendations |->
                   IF FracLess(Frac(6, 10), overall_risk)
                   THEN << "Comprehensive compliance review recommended" >>
                   ELSE << "Monitor compliance status" >>,
               mappings_analyzed |-> total_mappings ]

\* self.agents, in insertion order
AgentNames == << "safety", "environmental", "risk" >>

\* agent.analyze_compliance(mappings) of the agent of this name
analyze_compliance(agent_name, mappings) ==
    CASE agent_name = "safety" -> safety_analyze_compliance(mappings)
      [] agent_name = "environmental" -> environmental_analyze_compliance(mappings)
      [] agent_name = "risk" -> risk_analyze_compliance(mappings)

\* The loop over self.agents of process_agentic_reasoning: agent_results
RunAgents(mappings) ==
    [ i \in 1..Len(AgentNames) |-> analyze_compliance(AgentNames[i], mappings) ]

\* AgenticReasoningHandler._consolidate_analyses: each result is read under
\* the key risk_score, 0.5 where a result has no such key.
consolidate_analyses(agent_results) ==
    LET risk_scores == [ i \in 1..Len(agent_results) |->
                           Get(agent_results[i], "risk_score", Frac(1, 2)) ]
        total == SumSeq(risk_scores)
        overall_risk == IF Len(risk_scores) > 0
                        THEN Frac(total.num, total.den * Len(risk_scores))
                        ELSE Frac(1, 2)
    IN  [ overall_risk_score |-> Round3(overall_risk).num,
          agent_count |-> Len(agent_results) ]

\* The analysis id of a run: f"analysis_{document_id}".
AnalysisId(d) == d

\* INSERT INTO ANALYTICS.ANALYSIS_RESULTS of analysis_data (overall_risk_score
\* in thousandths)
insert_analysis(st, d, agent_results, overall_analysis) ==
    [ st EXCEPT !.analysisRows =
                    Append(@, [ analysis_id |-> AnalysisId(d),
                                document_id |-> d,
                                agent_analyses |-> agent_results,
                                overall_risk_score |->
                                    overall_analysis.overall_risk_score ]),
                !.trace = Append(@, Effect("persist", "analysis")) ]

AgenticFaults ==
    { Fault(c, 0, 0, FALSE) :
        c \in { "none", "query_mappings", "insert_analysis", "put_events" } }

\* AgenticReasoningHandler.process_agentic_reasoning. The except block
\* returns the error response and touches nothing.
process_agentic_reasoning_body(st, ev, f) ==
    LET d == ev.document_id
        failed(s, cause) == Return(s, "failure", "AGENTIC_REASONING_ERROR", cause)
        mappings == MappingsOfDocument(st, d)
        agent_results == RunAgents(mappings)
        overall_analysis == consolidate_analyses(agent_results)
    IN  IF f.call = "query_mappings" THEN failed(st, f.call)
        ELSE IF f.call = "insert_analysis" THEN failed(st, f.call)
        ELSE LET s1 == insert_analysis(st, d, agent_results, overall_analysis)
             IN  IF f.call = "put_events"
                 THEN failed(put_events_failed(s1, "put_events"), "put_events")
        ELSE Return(publish_reasoning_event(s1, d, "agentic_reasoning_completed"),
                    "success", "OK", "none")

\* -------------------------------------- report_generation/handler.py

\* DocumentStorage.store_report under a new report id
store_report(st, rid) ==
    [ st EXCEPT !.reportBlobs = @ \cup { rid },
                !.trace = Append(@, Effect("persist", "report")) ]

\* INSERT INTO ANALYTICS.REPORTS
insert_report(st, rid, aid) ==
    [ st EXCEPT !.reportRows = Append(@, [ report_id |-> rid, analysis_id |-> aid ]),
                !.trace = Append(@, Effect("persist", "report_row")) ]

ReportFaults ==
    { Fault(c, 0, 0, FALSE) :
        c \in { "none", "query_analysis", "store_report", "insert_report" } }

\* ReportGenerationHandler.generate_report. ev is the analysis id of the
\* event. No analysis row raises ValueError; the except block returns the
\* error response and touches nothing.
generate_report_body(st, ev, f) ==
    LET aid == ev.analysis_id
        rid == Cardinality(st.reportBlobs) + 1
        failed(s, cause) == Return(s, "failure", "REPORT_GENERATION_ERROR", cause)
    IN  IF f.call = "query_analysis" THEN failed(st, f.call)
        ELSE IF ~\E i \in 1..Len(st.analysisRows) :
                    st.analysisRows[i].analysis_id = aid
             THEN failed(st, "ValueError")
        ELSE IF f.call = "store_report" THEN failed(st, f.call)
        ELSE LET s1 == store_report(st, rid)
             IN  IF f.call = "insert_report" THEN failed(s1, f.call)
        ELSE Return(insert_report(s1, rid, aid), "success", "OK", "none")

\* --------------------------------------------------------- common/utils.py

\* func(*args, **kwargs): one call of the function a decorator wraps, the
\* handler body of the stage.
call_func(stage, st, ev, f) ==
    CASE stage = "document_ingestion" -> process_document_upload_body(st, ev, f)
      [] stage = "ocr_completion" -> process_ocr_completion_body(st, ev, f)
      [] stage = "clause_extraction" -> process_clause_extraction_body(st, ev, f)
      [] stage = "semantic_mapping" -> process_semantic_mapping_body(st, ev, f)
      [] stage = "agentic_reasoning" -> process_agentic_reasoning_body(st, ev, f)
      [] stage = "report_generation" -> generate_report_body(st, ev, f)

\* retry_with_backoff.wrapper, "if attempt == max_retries: raise": after a
\* call that raised, the wrapper calls again unless this was the last attempt.
CallsAgain(attempt) == attempt < max_retries

\* The wait that does not grow with the attempt number.
wait_time_constant(attempt) == backoff_factor

\* retry_with_backoff.wrapper, wait_time = backoff_factor * (2 ** attempt)
wait_time(attempt) == backoff_factor * (2 ^ attempt)

\* retry_with_backoff: the wrapper around the handler body of a stage, called
\* from stores st on event ev; each call draws its own fault from faults. A call that returns (a success or a
\* failure response alike) ends the loop; only a call that raises is
\* repeated. The value is the set of possible results.
retry_with_backoff(stage, st, ev, faults) ==
    LET RECURSIVE loop(_, _, _, _)
        loop(s, attempt, delays, outs) ==
            LET tries == { call_func(stage, s, ev, f) : f \in faults }
                \* return func(*args, **kwargs), or the raise of the last attempt
                ends == { t \in tries : t.out # "raise" \/ ~CallsAgain(attempt) }
                \* time.sleep(wait_time), then the next iteration
                again == { t.st : t \in tries \ ends }
            IN  { [ st |-> t.st, out |-> t.out, code |-> t.code,
                    attempts |-> attempt + 1, delays |-> delays,
                    outs |-> Append(outs, t.out),
                    cause |-> t.cause ] : t \in ends }
                \cup UNION { loop(s2, attempt + 1,
                                  Append(delays, wait_time(attempt)),
                                  Append(outs, "raise"))
                             : s2 \in again }
    IN  loop(st, 0, << >>, << >>)

\* timing_decorator alone, a handler without the retry wrapper: one call of
\* the body, its result or exception passed on.
call_once(stage, st, ev, faults) ==
    { LET r == call_func(stage, st, ev, f)
      IN  [ st |-> r.st, out |-> r.out, code |-> r.code, attempts |-> 1,
            delays |-> << >>, outs |-> << r.out >>, cause |-> r.cause ]
      : f \in faults }

\* The invocation ends: the stores are what the handler left, resp is what
\* the caller gets.
Finish(stage, d, input, res) ==
    /\ status' = res.st.status
    /\ rawBlobs' = res.st.rawBlobs
    /\ ocrJobs' = res.st.ocrJobs
    /\ processed' = res.st.processed
    /\ clauseRows' = res.st.clauseRows
    /\ entityRows' = res.st.entityRows
    /\ embeddingRows' = res.st.embeddingRows
    /\ mappingRows' = res.st.mappingRows
    /\ analysisRows' = res.st.analysisRows
    /\ reportRows' = res.st.reportRows
    /\ reportBlobs' = res.st.reportBlobs
    /\ events' = res.st.events
    /\ nextDoc' = res.st.nextDoc
    /\ calls' = calls + 1
    /\ UNCHANGED applied
    /\ resp' = [ stage |-> stage, doc |-> d, out |-> res.out, code |-> res.code,
                 attempts |-> res.attempts, delays |-> res.delays,
                 outs |-> res.outs,
                 cause |-> res.cause, input |-> input, trace |-> res.st.trace ]

\* ------------------------------------------------- the lambda handlers

\* lambda_handler -> process_document_upload under @timing_decorator and
\* @retry_with_backoff(max_retries=2)
process_document_upload ==
    /\ calls < MaxCalls
    /\ nextDoc <= MaxDocs
    /\ \E file \in { "unreadable", "invalid", "valid" } :
         \E res \in retry_with_backoff("document_ingestion", Stores,
                                       file, IngestionFaults) :
            Finish("document_ingestion",
                   IF res.st.nextDoc > nextDoc THEN nextDoc ELSE 0, file, res)

\* lambda_handler -> process_ocr_completion under @timing_decorator, on the
\* Textract notification of a job that was started.
process_ocr_completion ==
    /\ calls < MaxCalls
    /\ \E d \in ocrJobs, text \in { "empty", "text" } :
         \E res \in call_once("ocr_completion", Stores,
                              [ document_id |-> d, text |-> text ], OcrFaults) :
            Finish("ocr_completion", d, text, res)

\* What an invocation for document d finds: no document row, no stored OCR
\* result, an OCR result without text, or text with or without a clause in it.
ExtractionInput(d, n) ==
    IF status[d] = "absent" THEN "no_document"
    ELSE IF processed[<< d, "ocr_results" >>] = "none" THEN "no_ocr_result"
    ELSE IF processed[<< d, "ocr_results" >>] = "empty" THEN "empty_text"
    ELSE IF n = 0 THEN "text_without_clause"
    ELSE "text_with_clauses"

\* lambda_handler -> process_clause_extraction under @timing_decorator and
\* @retry_with_backoff(max_retries=2), for the id of an uploaded document.
process_clause_extraction ==
    /\ calls < MaxCalls
    /\ \E d \in 1..(nextDoc - 1), n \in 0..MaxClauses, ne \in 0..1 :
         \E res \in retry_with_backoff("clause_extraction", Stores,
                        [ document_id |-> d, clauses |-> n, entities |-> ne ],
                        ExtractionFaults) :
            Finish("clause_extraction", d, ExtractionInput(d, n), res)

\* lambda_handler -> process_semantic_mapping under @timing_decorator
process_semantic_mapping ==
    /\ calls < MaxCalls
    /\ \E d \in 1..(nextDoc - 1), regs \in SUBSET Regulations,
          score \in SimilarityScores :
         \E res \in call_once("semantic_mapping", Stores,
                              [ document_id |-> d, regs |-> regs, score |-> score ],
                              MappingFaults) :
            Finish("semantic_mapping", d, "clauses", res)

\* lambda_handler -> process_agentic_reasoning under @timing_decorator
process_agentic_reasoning ==
    /\ calls < MaxCalls
    /\ \E d \in 1..(nextDoc - 1) :
         \E res \in call_once("agentic_reasoning", Stores,
                              [ document_id |-> d ], AgenticFaults) :
            Finish("agentic_reasoning", d, "mappings", res)

\* lambda_handler -> generate_report under @timing_decorator
generate_report ==
    /\ calls < MaxCalls
    /\ \E d \in 1..(nextDoc - 1) :
         \E res \in call_once("report_generation", Stores,
                              [ analysis_id |-> AnalysisId(d) ], ReportFaults) :
            Finish("report_generation", d, "analysis", res)

Next ==
    \/ process_document_upload
    \/ process_ocr_completion
    \/ process_clause_extraction
    \/ process_semantic_mapping
    \/ process_agentic_reasoning
    \/ generate_report

Spec == Init /\ [][Next]_vars

\* The stages after clause extraction read PROCESSED.CLAUSES, a table of the
\* shared database. ClausesStored is a database in which the clause rows of
\* one document are present, as _store_extraction_results writes them for a
\* document with n clauses: the stores the downstream handlers are written
\* to work on.
ClausesStored ==
    /\ applied = NoCall
    /\ status = [ d \in DocIds |-> IF d = 1 THEN "clause_extraction_completed"
                                   ELSE "absent" ]
    /\ rawBlobs = { 1 }
    /\ ocrJobs = { 1 }
    /\ processed = [ k \in DocIds \X { "ocr_results", "clause_extraction" } |->
                       IF k[1] = 1 THEN "text" ELSE "none" ]
    /\ \E n \in 1..MaxClauses : clauseRows = ClauseRowsOf(1, n)
    /\ entityRows = << >>
    /\ embeddingRows = << >>
    /\ mappingRows = << >>
    /\ analysisRows = << >>
    /\ reportRows = << >>
    /\ reportBlobs = {}
    /\ events = << >>
    /\ nextDoc = 2
    /\ calls = 0
    /\ resp = NoResp

\* The handlers that work from the stored clauses.
DownstreamNext ==
    /\ calls < MaxDownstreamCalls
    /\ \/ process_semantic_mapping
       \/ process_agentic_reasoning
       \/ generate_report

DownstreamSpec == ClausesStored /\ [][DownstreamNext]_vars

\* -------------------------------- clause_extraction/entity_recognizer.py

\* An entity dict: the value as a list of characters, the confidence in
\* hundredths, the character offsets in the clause text.
EntityOf(value, confidence, start, end) ==
    [ entity_value |-> value, confidence |-> confidence,
      start_position |-> start, end_position |-> end ]

\* The entities left in the order they came in (no sort before the sweep).
SortedByStart_not_sorted(entities) == entities

\* sorted(entities, key=lambda x: x['start_position']): a stable sort, the
\* entities of equal start keep their order.
RECURSIVE SortedByStart(_)
SortedByStart(entities) ==
    IF entities = << >> THEN << >>
    ELSE LET n == Len(entities)
             rest == SortedByStart(SubSeq(entities, 1, n - 1))
             x == entities[n]
             \* x goes after every entity whose start is not greater
             k == Cardinality({ i \in 1..Len(rest) :
                                  rest[i].start_position <= x.start_position })
         IN  SubSeq(rest, 1, k) \o << x >> \o SubSeq(rest, k + 1, Len(rest))

\* The overlap test with spans that only touch taken as apart.
Overlap_touching_is_apart(next_entity, current_entity) ==
    /\ next_entity.start_position < current_entity.end_position
    /\ next_entity.end_position > current_entity.start_position

\* The overlap test of _merge_entities
Overlap(next_entity, current_entity) ==
    /\ next_entity.start_position <= current_entity.end_position
    /\ next_entity.end_position >= current_entity.start_position

\* The loop of _merge_entities over sorted_entities[1:], from index i on.
RECURSIVE MergeLoop(_, _, _, _)
MergeLoop(sorted_entities, i, current_entity, merged) ==
    IF i > Len(sorted_entities) THEN Append(merged, current_entity)
    ELSE LET next_entity == sorted_entities[i]
         IN  IF Overlap(next_entity, current_entity)
             THEN MergeLoop(sorted_entities, i + 1,
                            IF next_entity.confidence > current_entity.confidence
                            THEN next_entity ELSE current_entity,
                            merged)
             ELSE MergeLoop(sorted_entities, i + 1, next_entity,
                            Append(merged, current_entity))

\* EntityRecognizer._merge_entities
merge_entities(entities) ==
    IF entities = << >> THEN << >>
    ELSE LET sorted_entities == SortedByStart(entities)
         IN  MergeLoop(sorted_entities, 2, sorted_entities[1], << >>)

\* Lists of at most n elements of a set.
ListsUpTo(S, n) == UNION { [ 1..k -> S ] : k \in 0..n }

\* The entities the merge is called on: every span with start <= end up to
\* MaxPos, three confidences, one value.
MergeInputs ==
    { EntityOf(v, c, s, e) :
        v \in { << "a", "b" >> }, c \in { 50, 70, 90 },
        s \in 0..MaxPos, e \in 0..MaxPos }

SpanEntities == { x \in MergeInputs : x.start_position <= x.end_position }

\* A caller hands a list of entities to _merge_entities.
MergeInit ==
    /\ PipelineInit
    /\ \E entities \in ListsUpTo(SpanEntities, MaxEntities) :
          applied = Applied("input", entities, entities, 0)

\* _merge_entities called on the list handed in, then on its own result.
call_merge_entities ==
    /\ applied.fn \in { "input", "merge_entities" }
    /\ applied.n < MaxMerges
    /\ applied' = Applied("merge_entities", applied.result,
                          merge_entities(applied.result), applied.n + 1)
    /\ UNCHANGED pipeline

MergeSpec == MergeInit /\ [][call_merge_entities]_vars

\* Texts are lists of characters.
Chars == { "a", "B", " " }

Texts == ListsUpTo(Chars, MaxText)

\* str.lower(), character by character
Lower(text) == [ i \in 1..Len(text) |-> IF text[i] = "B" THEN "b" ELSE text[i] ]

\* The characters str.strip() removes and \\s matches.
Whitespace == { " ", "\n", "\t", "\r" }

\* str.strip()
RECURSIVE Strip(_)
Strip(text) ==
    IF text = << >> THEN << >>
    ELSE IF Head(text) \in Whitespace THEN Strip(Tail(text))
    ELSE IF text[Len(text)] \in Whitespace
         THEN Strip(SubSeq(text, 1, Len(text) - 1))
    ELSE text

\* text[start:end] for start >= 0
Slice(text, start, end) ==
    LET n == Len(text)
        hi == IF end < 0 THEN (IF n + end > 0 THEN n + end ELSE 0)
              ELSE IF end < n THEN end ELSE n
        lo == IF start < n THEN start ELSE n
    IN  IF lo >= hi THEN << >> ELSE SubSeq(text, lo + 1, hi)

\* needle in hay
Contains(hay, needle) ==
    \E k \in 0..(Len(hay) - Len(needle)) :
        SubSeq(hay, k + 1, k + Len(needle)) = needle

\* The confidences _calculate_pattern_confidence and
\* _calculate_spacy_confidence give, in hundredths.
Confidences == { 30, 50, 90 }

\* What _extract_pattern_entities and _extract_spacy_entities can find in a
\* text: an entity for a match (or spaCy span) text[start:end], its value the
\* matched text stripped. Which spans match is left open; every span of the
\* text is taken as a possible match.
FoundIn(text) ==
    { EntityOf(Strip(Slice(text, s, e)), c, s, e) :
        s \in 0..Len(text), e \in 0..Len(text), c \in Confidences }

MatchesIn(text) == { x \in FoundIn(text) : x.start_position <= x.end_position }

\* EntityRecognizer._validate_entities without the check of the value's
\* length.
validate_entities_any_length(entities, text) ==
    SelectSeq(entities,
              LAMBDA entity :
                  /\ entity.confidence >= 30
                  /\ entity.start_position >= 0
                  /\ entity.end_position <= Len(text)
                  /\ Contains(Lower(Slice(text, entity.start_position,
                                          entity.end_position)),
                              Lower(entity.entity_value)))

\* EntityRecognizer._validate_entities
validate_entities(entities, text) ==
    SelectSeq(entities,
              LAMBDA entity :
                  /\ ~( entity.entity_value = << >>
                        \/ Len(Strip(entity.entity_value)) < 2 )
                  /\ ~( entity.confidence < 30 )
                  /\ entity.start_position >= 0
                  /\ entity.end_position <= Len(text)
                  /\ Contains(Lower(Slice(text, entity.start_position,
                                          entity.end_position)),
                              Lower(entity.entity_value)))

\* EntityRecognizer.extract_entities: found is what the patterns and spaCy
\* find in the text, in the order the entities list collects them.
extract_entities(text, found) ==
    IF text = << >> \/ Strip(text) = << >> THEN << >>
    ELSE validate_entities(merge_entities(found), text)

\* A caller has a clause text; the patterns and spaCy find entities in it.
ExtractInit ==
    /\ PipelineInit
    /\ \E text \in Texts :
          \E found \in ListsUpTo(MatchesIn(text), MaxFound) :
             applied = Applied("input", [ text |-> text, found |-> found ],
                               << >>, 0)

call_extract_entities ==
    /\ applied.fn = "input"
    /\ applied' = Applied("extract_entities", applied.arg,
                          extract_entities(applied.arg.text, applied.arg.found), 1)
    /\ UNCHANGED pipeline

ExtractSpec == ExtractInit /\ [][call_extract_entities]_vars

\* -------------------------------- clause_extraction/clause_classifier.py

\* The categories of _load_classification_rules, in the order of the dict.
ClauseTypes == << "safety_compliance", "environmental_compliance",
                  "operational_compliance", "commercial_terms",
                  "legal_provisions" >>

\* rules['weight'] of a category
Weight(clause_type) ==
    CASE clause_type = "commercial_terms" -> Frac(8, 10)
      [] clause_type = "legal_provisions" -> Frac(7, 10)
      [] OTHER -> Frac(1, 1)

\* A clause handed to the classifier: kind is "empty" (None or ''), "blank"
\* (white space only), "raises" (a value on which the body of the try block
\* raises, such as a number: no strip()) or "text"; for a text, the number
\* of words of the preprocessed text and, for each category, how many of its
\* keywords and of its regulatory patterns the text contains.
Clause(kind, word_count, keywords, patterns) ==
    [ kind |-> kind, word_count |-> word_count,
      keywords |-> keywords, patterns |-> patterns ]

TypeIndex == 1..Len(ClauseTypes)

NoHits == [ t \in TypeIndex |-> 0 ]

WordCounts == { 1, 60, 450, 900 }

ClauseInputs ==
    { Clause(k, 0, NoHits, NoHits) : k \in { "empty", "blank", "raises" } }
    \cup { Clause("text", w, kw, rx) :
             w \in WordCounts,
             kw \in [ TypeIndex -> 0..MaxHits ],
             rx \in [ TypeIndex -> 0..MaxHits ] }

\* ClauseClassifier._apply_classification_rules: the scores of one category
score_data(clause, t) ==
    LET score == clause.keywords[t] + 2 * clause.patterns[t]
        w == Weight(ClauseTypes[t])
        weighted_score == Frac(score * w.num, w.den)
        \* weighted_score / max(1, word_count / 50)
        normalized_score ==
            Frac(weighted_score.num * 50,
                 weighted_score.den * (IF clause.word_count > 50
                                       THEN clause.word_count ELSE 50))
    IN  [ raw_score |-> score,
          weighted_score |-> weighted_score,
          normalized_score |-> FracMin(Frac(1, 1), normalized_score),
          keywords_found |-> clause.keywords[t] ]

apply_classification_rules(clause) ==
    [ t \in TypeIndex |-> score_data(clause, t) ]

\* The loop of _determine_primary_classification over scores.items(), from
\* the t-th category on: a category replaces the best only with a greater
\* normalized score.
RECURSIVE BestFrom(_, _, _, _)
BestFrom(scores, t, best_type, best_score) ==
    IF t > Len(scores) THEN [ type |-> best_type, score |-> best_score ]
    ELSE IF FracLess(best_score, scores[t].normalized_score)
         THEN BestFrom(scores, t + 1, ClauseTypes[t], scores[t].normalized_score)
         ELSE BestFrom(scores, t + 1, best_type, best_score)

\* _determine_primary_classification with the threshold test dropped.
determine_primary_classification_no_threshold(scores) ==
    BestFrom(scores, 1, "unknown", Frac(0, 1))

\* ClauseClassifier._determine_primary_classification
determine_primary_classification(scores) ==
    LET best == BestFrom(scores, 1, "unknown", Frac(0, 1))
    IN  IF Len(scores) = 0 THEN [ type |-> "unknown", score |-> Frac(0, 1) ]
        ELSE IF FracLess(best.score, Frac(1, 10))
             THEN [ type |-> "unknown", score |-> Frac(0, 1) ]
        ELSE best

\* ClauseClassifier._create_unknown_classification
create_unknown_classification(reason) ==
    [ primary_type |-> "unknown", confidence |-> Frac(0, 1000),
      reasoning |-> reason, classification_scores |-> << >>,
      word_count |-> 0 ]

\* ClauseClassifier.classify_clause
classify_clause(clause) ==
    IF clause.kind \in { "empty", "blank" }
    THEN create_unknown_classification("Empty clause text")
    ELSE IF clause.kind = "raises"
    THEN create_unknown_classification("Classification failed")
    ELSE LET classification_scores == apply_classification_rules(clause)
             primary == determine_primary_classification(classification_scores)
         IN  [ primary_type |-> primary.type,
               confidence |-> Round3(primary.score),
               reasoning |-> IF primary.type = "unknown"
                             THEN "Could not determine clause type"
                             ELSE "Classified",
               classification_scores |-> classification_scores,
               word_count |-> clause.word_count ]

\* A caller has a clause to classify.
ClassifyInit ==
    /\ PipelineInit
    /\ \E clause \in ClauseInputs : applied = Applied("input", clause, << >>, 0)

call_classify_clause ==
    /\ applied.fn = "input"
    /\ applied' = Applied("classify_clause", applied.arg,
                          classify_clause(applied.arg), 1)
    /\ UNCHANGED pipeline

ClassifySpec == ClassifyInit /\ [][call_classify_clause]_vars

\* result['clause_index'] = i
WithClauseIndex(result, i) ==
    [ k \in DOMAIN result \cup { "clause_index" } |->
        IF k = "clause_index" THEN i ELSE result[k] ]

\* The loop of batch_classify_clauses that gives up at the first clause
\* whose classification failed.
BatchLoop_stops_at_failure(clauses, i, results) ==
    LET RECURSIVE loop(_, _)
        loop(j, acc) ==
            IF j > Len(clauses) \/ clauses[j].kind = "raises" THEN acc
            ELSE loop(j + 1, Append(acc, WithClauseIndex(classify_clause(clauses[j]),
                                                         j - 1)))
    IN  loop(i, results)

\* The loop of batch_classify_clauses from the i-th clause on (enumerate
\* counts from 0). classify_clause catches what its body raises, so the try
\* block of the loop always completes.
RECURSIVE BatchLoop(_, _, _)
BatchLoop(clauses, i, results) ==
    IF i > Len(clauses) THEN results
    ELSE BatchLoop(clauses, i + 1,
                   Append(results,
                          WithClauseIndex(classify_clause(clauses[i]), i - 1)))

\* ClauseClassifier.batch_classify_clauses
batch_classify_clauses(clauses) == BatchLoop(clauses, 1, << >>)

\* The clauses of a batch: empty, failing, or a short or a long text with at
\* most one keyword.
BatchClauses ==
    { c \in ClauseInputs :
        /\ c.word_count \in { 0, 1, 900 }
        /\ c.patterns = NoHits
        /\ Cardinality({ t \in TypeIndex : c.keywords[t] > 0 }) <= 1
        /\ \A t \in TypeIndex : c.keywords[t] <= 1 }

BatchInit ==
    /\ PipelineInit
    /\ \E clauses \in ListsUpTo(BatchClauses, MaxBatch) :
          applied = Applied("input", clauses, << >>, 0)

call_batch_classify_clauses ==
    /\ applied.fn = "input"
    /\ applied' = Applied("batch_classify_clauses", applied.arg,
                          batch_classify_clauses(applied.arg), 1)
    /\ UNCHANGED pipeline

BatchSpec == BatchInit /\ [][call_batch_classify_clauses]_vars

\* ------------------------------------- document_ingestion/pdf_processor.py

\* Confidence of a LINE block as Textract reports it, in percent; 0 is the
\* default of a block without one.
LineConfidences == { 0, 50, 70, 90 }

\* A PAGE block with its child LINE blocks, each by its confidence.
PageBlocks == ListsUpTo(LineConfidences, MaxLines)

\* The PAGE blocks of a Textract result, in the order of the blocks.
TextractResults == ListsUpTo(PageBlocks, MaxPages)

\* Sum of a list of integers.
RECURSIVE SumInts(_)
SumInts(q) == IF q = << >> THEN 0 ELSE Head(q) + SumInts(Tail(q))

\* PDFProcessor._process_page: the page's confidence is the mean over its
\* lines of confidence above 0, rounded to 3 decimals (kept in thousandths).
process_page(page_block) ==
    LET counted == SelectSeq(page_block, LAMBDA c : c > 0)
        page_confidence ==
            IF Len(counted) > 0
            THEN Frac(SumInts(counted), Len(counted))
            ELSE Frac(0, 1)
    IN  [ confidence |-> Round3(page_confidence).num,
          line_count |-> Len(page_block) ]

\* PDFProcessor.process_textract_results: the document's confidence is the
\* mean over the pages of confidence above 0, rounded to 3 decimals (kept in
\* thousandths).
process_textract_results(textract_results) ==
    LET processed_pages ==
            [ i \in 1..Len(textract_results) |-> process_page(textract_results[i]) ]
        confidences ==
            [ i \in 1..Len(processed_pages) |-> processed_pages[i].confidence ]
        counted == SelectSeq(confidences, LAMBDA c : c > 0)
        overall_confidence ==
            IF Len(counted) > 0
            THEN Frac(SumInts(counted), 1000 * Len(counted))
            ELSE Frac(0, 1)
    IN  [ pages       |-> processed_pages,
          confidence  |-> Round3(overall_confidence).num,
          total_pages |-> Len(processed_pages) ]

OcrInit ==
    /\ PipelineInit
    /\ \E textract_results \in TextractResults :
          applied = Applied("input", textract_results, << >>, 0)

call_process_textract_results ==
    /\ applied.fn = "input"
    /\ applied' = Applied("process_textract_results", applied.arg,
                          process_textract_results(applied.arg), 1)
    /\ UNCHANGED pipeline

OcrSpec == OcrInit /\ [][call_process_textract_results]_vars

\* ------------------------------------ clause_extraction/langchain_processor.py

\* \d
Digits == { "0", "1", "2", "3", "4", "5", "6", "7", "8", "9" }

\* [a-z], in the order chr(ord('a') + i) runs through it
Alphabet == << "a", "b", "c", "d", "e", "f", "g", "h", "i", "j", "k", "l", "m",
               "n", "o", "p", "q", "r", "s", "t", "u", "v", "w", "x", "y", "z" >>

Lowercase == { Alphabet[i] : i \in 1..Len(Alphabet) }

\* A text of n times the character c.
Repeat(c, n) == [ i \in 1..n |-> c ]

\* A document text is put together from these pieces: a numbered, a lettered
\* and a section marker, a blank line, a run of 51 and a run of 50 capital
\* letters, a digit, a capital S and a space.
Pieces ==
    { << "1", ".", " " >>,
      << "a", ")", " " >>,
      << "S", "E", "C", "T", "I", "O", "N", " ", "1" >>,
      << "\n", "\n" >>,
      Repeat("X", min_paragraph_length + 1),
      Repeat("X", min_paragraph_length),
      << "1" >>,
      << "S" >>,
      << " " >> }

RECURSIVE Concat(_)
Concat(pieces) ==
    IF pieces = << >> THEN << >> ELSE Head(pieces) \o Concat(Tail(pieces))

DocumentTexts == { Concat(pieces) : pieces \in ListsUpTo(Pieces, MaxPieces) }

\* The character of text at position p (from 1), "" past the end.
At(text, p) == IF p >= 1 /\ p <= Len(text) THEN text[p] ELSE ""

\* The first position from p on whose character is in stop, Len(text) + 1 if
\* there is none: where a lazy run of characters outside stop has to end.
FirstStop(text, p, stop) ==
    LET hits == { i \in p..Len(text) : text[i] \in stop }
    IN  IF hits = {} THEN Len(text) + 1
        ELSE CHOOSE i \in hits : \A j \in hits : i <= j

\* The last position of the run of characters of class that starts at p,
\* p - 1 if text has no such character at p (a greedy class+ or class*).
RunEnd(text, p, class) == FirstStop(text, p, { At(text, i) : i \in p..Len(text) } \ class) - 1

\* \d+\.\s matched at p: the position of the full stop, 0 if no match.
NumberedMarker(text, p) ==
    LET d == RunEnd(text, p, Digits) + 1
    IN  IF d > p /\ At(text, d) = "." /\ At(text, d + 1) \in Whitespace
        THEN d ELSE 0

\* [a-z]\)\s matched at p: the position of the bracket, 0 if no match.
LetteredMarker(text, p) ==
    IF At(text, p) \in Lowercase /\ At(text, p + 1) = ")"
       /\ At(text, p + 2) \in Whitespace
    THEN p + 1 ELSE 0

\* (?:SECTION|Section)\s+\d+ matched at p: the position of the last digit,
\* 0 if no match.
SectionMarker(text, p) ==
    LET word == SubSeq(text, p, p + 6)
        s == RunEnd(text, p + 7, Whitespace)
        g == RunEnd(text, s + 1, Digits)
    IN  IF /\ p + 6 <= Len(text)
           /\ word \in { << "S", "E", "C", "T", "I", "O", "N" >>,
                         << "S", "e", "c", "t", "i", "o", "n" >> }
           /\ s >= p + 7
           /\ g >= s + 1
        THEN g ELSE 0

\* (\d+\.\s+[^0-9]+?)(?=\d+\.\s+|\Z) matched at p: the position of the last
\* character of the match, 0 if no match. After the marker come a white space
\* and at least one more character that is not a digit, up to the next
\* digit, which must open a marker, or to the end of the text.
NumberedMatch(text, p) ==
    LET d == NumberedMarker(text, p)
        f == FirstStop(text, d + 1, Digits)
    IN  IF d > 0 /\ f >= d + 3
           /\ (f = Len(text) + 1 \/ NumberedMarker(text, f) > 0)
        THEN f - 1 ELSE 0

\* ([a-z]\)\s+[^a-z\)]+?)(?=[a-z]\)\s+|\Z) matched at p, likewise.
LetteredMatch(text, p) ==
    LET d == LetteredMarker(text, p)
        f == FirstStop(text, d + 1, Lowercase \cup { ")" })
    IN  IF d > 0 /\ f >= d + 3
           /\ (f = Len(text) + 1 \/ LetteredMarker(text, f) > 0)
        THEN f - 1 ELSE 0

\* ((?:SECTION|Section)\s+\d+[^S]*?)(?=(?:SECTION|Section)\s+\d+|\Z) matched
\* at p, likewise; nothing has to follow the marker.
SectionMatch(text, p) ==
    LET g == SectionMarker(text, p)
        f == FirstStop(text, g + 1, { "S" })
    IN  IF g > 0 /\ (f = Len(text) + 1 \/ SectionMarker(text, f) > 0)
        THEN f - 1 ELSE 0

\* The three patterns of _extract_clauses_by_pattern.
Patterns == { "numbered_pattern", "lettered_pattern", "section_pattern" }

MatchAt(pattern, text, p) ==
    CASE pattern = "numbered_pattern" -> NumberedMatch(text, p)
      [] pattern = "lettered_pattern" -> LetteredMatch(text, p)
      [] pattern = "section_pattern"  -> SectionMatch(text, p)

\* re.findall(pattern, text, re.DOTALL) from position p on: the matches from
\* left to right, each search starting where the last match ended.
RECURSIVE FindAllFrom(_, _, _)
FindAllFrom(pattern, text, p) ==
    IF p > Len(text) THEN << >>
    ELSE LET e == MatchAt(pattern, text, p)
         IN  IF e > 0
             THEN << SubSeq(text, p, e) >> \o FindAllFrom(pattern, text, e + 1)
             ELSE FindAllFrom(pattern, text, p + 1)

findall(pattern, text) == FindAllFrom(pattern, text, 1)

\* text.split('\n\n')
RECURSIVE SplitFrom(_, _, _)
SplitFrom(text, p, start) ==
    IF p > Len(text) THEN << SubSeq(text, start, Len(text)) >>
    ELSE IF At(text, p) = "\n" /\ At(text, p + 1) = "\n"
         THEN << SubSeq(text, start, p - 1) >> \o SplitFrom(text, p + 2, p + 2)
         ELSE SplitFrom(text, p + 1, start)

split_blank_lines(text) == SplitFrom(text, 1, 1)

\* [p.strip() for p in text.split('\n\n') if p.strip() and len(p.strip()) > 50]
paragraphs_of(text) ==
    LET parts == split_blank_lines(text)
        stripped == [ i \in 1..Len(parts) |-> Strip(parts[i]) ]
    IN  SelectSeq(stripped, LAMBDA q : q # << >> /\ Len(q) > min_paragraph_length)

\* The clause number of the i-th match (i from 0) of a method: f"{i+1}",
\* f"{letter})", f"S{i+1}", f"P{i+1}", as the prefix or letter and the number
\* or bracket (no text here has more lettered matches than letters).
clause_number(method, i) ==
    CASE method = "numbered_pattern" -> << "", i + 1 >>
      [] method = "lettered_pattern" -> << Alphabet[i + 1], ")" >>
      [] method = "section_pattern"  -> << "S", i + 1 >>
      [] method = "paragraph_split"  -> << "P", i + 1 >>

\* The clauses one strategy appends for its matches.
clauses_of(method, matches) ==
    [ i \in 1..Len(matches) |->
        [ clause_number     |-> clause_number(method, i - 1),
          text              |-> IF method = "paragraph_split" THEN matches[i]
                                ELSE Strip(matches[i]),
          extraction_method |-> method ] ]

\* _extract_clauses_by_pattern with the paragraphs split whatever the patterns found.
extract_clauses_by_pattern_always_splits(text) ==
    LET clauses == clauses_of("numbered_pattern", findall("numbered_pattern", text))
                   \o clauses_of("lettered_pattern", findall("lettered_pattern", text))
                   \o clauses_of("section_pattern", findall("section_pattern", text))
    IN  clauses \o clauses_of("paragraph_split", paragraphs_of(text))

\* ClauseExtractionTool._extract_clauses_by_pattern
extract_clauses_by_pattern(text) ==
    LET clauses == clauses_of("numbered_pattern", findall("numbered_pattern", text))
                   \o clauses_of("lettered_pattern", findall("lettered_pattern", text))
                   \o clauses_of("section_pattern", findall("section_pattern", text))
    IN  IF clauses = << >>
        THEN clauses_of("paragraph_split", paragraphs_of(text))
        ELSE clauses

SegmentInit ==
    /\ PipelineInit
    /\ \E text \in DocumentTexts : applied = Applied("input", text, << >>, 0)

call_extract_clauses_by_pattern ==
    /\ applied.fn = "input"
    /\ applied' = Applied("extract_clauses_by_pattern", applied.arg,
                          extract_clauses_by_pattern(applied.arg), 1)
    /\ UNCHANGED pipeline

SegmentSpec == SegmentInit /\ [][call_extract_clauses_by_pattern]_vars

\* ------------------- clause_extraction: the processor and the clause loop

\* A clause candidate as the stage sees it: the length of its text, the
\* clause the classifier is handed and the number of entities the recogniser
\* finds in it.
Candidate(length, clause, entities) ==
    [ kind |-> "clause", length |-> length, clause |-> clause,
      entities |-> entities ]

\* One keyword of category t and nothing else.
OneKeyword(t) == [ u \in TypeIndex |-> IF u = t THEN 1 ELSE 0 ]

\* What the patterns of ClauseExtractionTool yield: a bare marker ("1."
\* after strip) or a clause of 60 characters and 10 words with one safety
\* keyword, or with one environmental keyword and an entity.
PatternCandidates ==
    { Candidate(2, Clause("text", 1, NoHits, NoHits), 0),
      Candidate(60, Clause("text", 10, OneKeyword(1), NoHits), 0),
      Candidate(60, Clause("text", 10, OneKeyword(2), NoHits), 1) }

\* What _parse_llm_extraction_result yields: the same, or, from a JSON
\* response, a clause with the text ''.
LlmCandidates ==
    PatternCandidates \cup { Candidate(0, Clause("empty", 0, NoHits, NoHits), 0) }

\* The keys of the dict _fallback_clause_extraction returns, in the order
\* list.extend(dict) appends them.
FallbackKeys ==
    << [ kind |-> "key", name |-> "clauses" ],
       [ kind |-> "key", name |-> "total_clauses" ],
       [ kind |-> "key", name |-> "extraction_method" ],
       [ kind |-> "key", name |-> "processing_notes" ] >>

\* LangChainClauseProcessor._fallback_clause_extraction: the clauses of
\* ClauseExtractionTool._run, here pattern.
fallback_clause_extraction(pattern) ==
    [ clauses |-> pattern, extraction_method |-> "pattern_based_fallback" ]

\* The outcome of the LLM path: extraction_chain.run raises, or these are
\* the clauses parsed from its response.
LlmOutcome(raises, clauses) == [ raises |-> raises, clauses |-> clauses ]

\* LangChainClauseProcessor.extract_clauses on a text of the given length
\* (after strip); llm is the outcome of the LLM path, pattern the clauses the
\* patterns find. With fewer than 2 parsed clauses, clauses.extend() of the
\* fallback's dict appends its keys; clause['text'] of a key (a str) raises
\* TypeError in the classification loop, and the except clause returns the
\* fallback's dict.
extract_clauses(length, llm, pattern) ==
    IF length < min_document_length
    THEN [ clauses |-> << >>, extraction_method |-> "none" ]
    ELSE IF llm.raises THEN fallback_clause_extraction(pattern)
    ELSE LET clauses == IF Len(llm.clauses) < 2
                        THEN llm.clauses \o FallbackKeys
                        ELSE llm.clauses
         IN  IF \E i \in 1..Len(clauses) : clauses[i].kind # "clause"
             THEN fallback_clause_extraction(pattern)
             ELSE [ clauses |-> clauses,
                    extraction_method |-> "langchain_with_snowflake_cortex" ]

\* A fault inside the classifier or the recogniser on the clause at index at
\* (from 1); at = 0 is no fault.
StageFault(in, at) == [ in |-> in, at |-> at ]

\* The clause record of the loop of _extract_clauses for the i-th candidate.
\* classify_clause and extract_entities catch what is raised inside them and
\* return the unknown classification and [].
clause_record(d, i, clause_data, fault) ==
    LET classification ==
            IF fault.in = "classify_clause" /\ fault.at = i
            THEN create_unknown_classification("Classification failed")
            ELSE classify_clause(clause_data.clause)
        entities ==
            IF fault.in = "extract_entities" /\ fault.at = i THEN 0
            ELSE clause_data.entities
    IN  [ clause_id   |-> << d, i >>,
          document_id |-> d,
          length      |-> clause_data.length,
          clause_type |-> classification.primary_type,
          confidence  |-> classification.confidence,
          reasoning   |-> classification.reasoning,
          entities    |-> entities ]

\* The loop of _extract_clauses with a fault of classify_clause or
\* extract_entities leaving the loop: the records up to the fault.
clause_records_fault_ends_loop(d, clauses, fault) ==
    LET n == IF fault.at \in 1..Len(clauses) THEN fault.at - 1 ELSE Len(clauses)
    IN  [ i \in 1..n |-> clause_record(d, i, clauses[i], fault) ]

\* The loop of _extract_clauses: one record for each clause of the processor.
clause_records(d, clauses, fault) ==
    [ i \in 1..Len(clauses) |-> clause_record(d, i, clauses[i], fault) ]

\* ClauseExtractionHandler._extract_clauses on the OCR result of document d:
\* ValueError without text; else the records of the loop, and then the
\* returned dict, whose processing_timestamp reads datetime.
handler_extract_clauses(d, length, llm, pattern, fault) ==
    IF length = 0
    THEN [ langchain_results |-> [ clauses |-> << >>, extraction_method |-> "none" ],
           clauses |-> << >>, raises |-> "ValueError" ]
    ELSE LET langchain_results == extract_clauses(length, llm, pattern)
         IN  [ langchain_results |-> langchain_results,
               clauses |-> clause_records(d, langchain_results.clauses, fault),
               raises |-> IF ExtractionDatetimeImported THEN "none"
                          ELSE "NameError" ]

\* The lengths of a document text: none, below and above the least length
\* extract_clauses works on.
DocumentLengths == { 0, min_document_length - 1, min_document_length + 20 }

StageFaults ==
    { StageFault("none", 0) }
    \cup { StageFault(in, at) : in \in { "classify_clause", "extract_entities" },
                                at \in 1..MaxStageClauses }

StageInit ==
    /\ PipelineInit
    /\ \E length \in DocumentLengths,
          llm \in { LlmOutcome(TRUE, << >>) }
                  \cup { LlmOutcome(FALSE, q) :
                           q \in ListsUpTo(LlmCandidates, MaxStageClauses) },
          pattern \in ListsUpTo(PatternCandidates, MaxStageClauses),
          fault \in StageFaults :
          applied = Applied("input",
                            [ length |-> length, llm |-> llm,
                              pattern |-> pattern, fault |-> fault ],
                            << >>, 0)

call_handler_extract_clauses ==
    /\ applied.fn = "input"
    /\ applied' = Applied("_extract_clauses", applied.arg,
                          handler_extract_clauses(1, applied.arg.length,
                                                  applied.arg.llm,
                                                  applied.arg.pattern,
                                                  applied.arg.fault), 1)
    /\ UNCHANGED pipeline

StageSpec == StageInit /\ [][call_handler_extract_clauses]_vars

\* ------------------------------------ agents/safety_agent.py, called alone

\* The mappings a caller hands to the safety agent: of a safety or an
\* environmental regulation, of one of two clauses, with a similarity (in
\* hundredths) of 0 (the default of a mapping without one), just below 0.8
\* or 0.8.
AgentMappings ==
    { [ clause_id |-> c, compliance_category |-> cat, similarity_score |-> s ] :
        c \in 1..2,
        cat \in { "safety_compliance", "environmental_compliance" },
        s \in { 0, 79, 80 } }

SafetyInit ==
    /\ PipelineInit
    /\ \E mappings \in ListsUpTo(AgentMappings, MaxMappings) :
          applied = Applied("input", mappings, << >>, 0)

call_safety_analyze_compliance ==
    /\ applied.fn = "input"
    /\ applied' = Applied("safety_analyze_compliance", applied.arg,
                          safety_analyze_compliance(applied.arg), 1)
    /\ UNCHANGED pipeline

SafetySpec == SafetyInit /\ [][call_safety_analyze_compliance]_vars

\* ------------------------------------------------- common/utils.chunk_text

\* A text by what chunk_text looks at: whether it is the empty string, and
\* the number of words text.split() yields ("  " is not empty and has none).
ChunkTexts ==
    { [ empty |-> TRUE, words |-> 0 ] }
    \cup { [ empty |-> FALSE, words |-> n ] : n \in 0..MaxWords }

\* The iterations of the while loop the model follows for one call.
MaxIterations == MaxWords + 2

\* The first index of words[start:end] (or the last, for end) of a list of
\* n words: a negative index counts from the end of the list.
SliceIndex(n, i) ==
    IF i < 0 THEN (IF n + i < 0 THEN 0 ELSE n + i)
    ELSE (IF i > n THEN n ELSE i)

\* words[start:end] of a list of n words, as the positions of its words.
WordSlice(n, start, end) ==
    LET lo == SliceIndex(n, start)
        hi == SliceIndex(n, end)
    IN  IF hi > lo THEN [ i \in 1..(hi - lo) |-> lo + i ] ELSE << >>

\* chunks.append({...}) of the while loop.
Chunk(chunk_index, text, start, end, word_count) ==
    [ chunk_index |-> chunk_index, text |-> text, start_word |-> start,
      end_word |-> end, word_count |-> word_count ]

\* The position of a call of chunk_text: "while" before the loop condition,
\* "returned" after a return.
ChunkState(pc, start, chunk_index, chunks) ==
    [ pc |-> pc, start |-> start, chunk_index |-> chunk_index, chunks |-> chunks ]

ChunkInit ==
    /\ PipelineInit
    /\ \E text \in ChunkTexts, chunk_size \in 0..MaxChunkSize,
          overlap \in 0..MaxOverlap :
          applied = Applied("input",
                            [ text |-> text, chunk_size |-> chunk_size,
                              overlap |-> overlap ],
                            ChunkState("call", 0, 0, << >>), 0)

\* chunk_text up to the while loop: the two early returns, or start = 0 and
\* chunk_index = 0.
chunk_text_call ==
    /\ applied.fn = "input"
    /\ LET a == applied.arg
           len_words == a.text.words
       IN  applied' = Applied("chunk_text", a,
               IF a.text.empty \/ a.chunk_size <= 0
               THEN ChunkState("returned", 0, 0, << >>)
               ELSE IF len_words <= a.chunk_size
               THEN ChunkState("returned", 0, 0,
                               << Chunk(0, WordSlice(len_words, 0, len_words), 0,
                                        len_words, len_words) >>)
               ELSE ChunkState("while", 0, 0, << >>),
               0)
    /\ UNCHANGED pipeline

\* start = end - overlap if end < len(words) else end
next_start(end, len_words, overlap) ==
    IF end < len_words THEN end - overlap ELSE end

\* One iteration of "while start < len(words)": a chunk is appended, start
\* moves to end - overlap (or to end after the last word), and the loop ends
\* when start has reached the number of words.
chunk_text_iteration ==
    /\ applied.fn = "chunk_text"
    /\ applied.result.pc = "while"
    /\ applied.result.start < applied.arg.text.words
    /\ applied.n < MaxIterations
    /\ LET a == applied.arg
           r == applied.result
           len_words == a.text.words
           end == IF r.start + a.chunk_size < len_words
                  THEN r.start + a.chunk_size ELSE len_words
           chunk_words == WordSlice(len_words, r.start, end)
           start == next_start(end, len_words, a.overlap)
       IN  applied' = Applied("chunk_text", a,
               ChunkState(IF start >= len_words THEN "returned" ELSE "while",
                          start, r.chunk_index + 1,
                          Append(r.chunks,
                                 Chunk(r.chunk_index, chunk_words, r.start,
                                       end, Len(chunk_words)))),
               applied.n + 1)
    /\ UNCHANGED pipeline

ChunkNext == chunk_text_call \/ chunk_text_iteration

\* A call that has started goes on: nothing but the function itself runs.
ChunkSpec == ChunkInit /\ [][ChunkNext]_vars /\ WF_vars(ChunkNext)

\* ------------------------------------------------------------- properties

\* Every collaborator call a fault can name.
CollaboratorCalls ==
    { f.call : f \in IngestionFaults \cup OcrFaults \cup ExtractionFaults
                     \cup MappingFaults \cup AgenticFaults \cup ReportFaults }
    \ { "none" }

\* The latest invocation had this effect.
TraceHas(op, arg) ==
    \E i \in 1..Len(resp.trace) : resp.trace[i] = Effect(op, arg)

PipelineStages == { "document_ingestion", "ocr_completion", "clause_extraction",
                    "semantic_mapping", "agentic_reasoning" }

\* The status a stage is to write to the document record. The OCR completion
\* handler reports ocr_completed and stores processing; either counts.
TargetStatuses(stage) ==
    CASE stage = "document_ingestion" -> { "uploaded" }
      [] stage = "ocr_completion" -> { "ocr_completed", "processing" }
      [] stage = "clause_extraction" -> { "clause_extraction_completed" }
      [] stage = "semantic_mapping" -> { "semantic_mapping_completed" }
      [] stage = "agentic_reasoning" -> { "agentic_reasoning_completed" }
      [] stage = "report_generation" -> { "report_generated" }
      [] OTHER -> {}

ReasoningStored ==
    /\ resp.stage = "agentic_reasoning"
    /\ TraceHas("persist", "analysis")

LastAnalysis == analysisRows[Len(analysisRows)]

\* C12: the overall_risk_score stored with an analysis is the mean of the
\* three scores the safety, environmental and risk agents computed, rounded
\* to 3 decimals; the risk agent's own score enters the mean.
C12_OverallRiskIsMeanOfAgentScores ==
    \A i \in 1..Len(analysisRows) :
        LET a == analysisRows[i].agent_analyses
            total == SumSeq(<< a[1].risk_score, a[2].risk_score,
                               a[3].overall_risk_score >>)
        IN  analysisRows[i].overall_risk_score
              = Round3(Frac(total.num, total.den * 3)).num

\* C13: for a document without any mapping the risk agent's result has the
\* score 1.0 (the agent reports its score as overall_risk_score), the risk
\* level critical and the one fixed entry "No compliance mappings found".
C13_NoMappingsIsCritical ==
    ( ReasoningStored /\ MappingsOfDocument(Stores, resp.doc) = << >> )
    => LET r == LastAnalysis.agent_analyses[3]
       IN  /\ FracEq(r.overall_risk_score, Frac(1, 1))
           /\ r.risk_level = "critical"
           /\ r.risk_factors = << "No compliance mappings found" >>

C13_Witness ==
    /\ ReasoningStored
    /\ resp.out = "success"
    /\ MappingsOfDocument(Stores, resp.doc) = << >>
    /\ LastAnalysis.document_id = resp.doc
    /\ LastAnalysis.agent_analyses[3].risk_level = "critical"

\* C14: every agentic-reasoning run stores its result under an analysis id
\* no earlier run used, so no two analysis rows share an analysis id.
C14_AnalysisIdFresh ==
    \A i, j \in 1..Len(analysisRows) :
        i # j => analysisRows[i].analysis_id # analysisRows[j].analysis_id

\* C15: entity merge is idempotent: merging an already merged list returns
\* the same list, element for element and in the same order.
C15_MergeIdempotent ==
    ( applied.fn = "merge_entities" /\ applied.n = 2 )
    => applied.result = applied.arg

\* A second merge, of a merged list of two entities.
C15_Witness ==
    /\ applied.fn = "merge_entities"
    /\ applied.n = 2
    /\ Len(applied.arg) = 2
    /\ applied.arg[1].confidence = 90
    /\ applied.arg[1].start_position > 0
    /\ applied.result = applied.arg

\* C16: every entity extract_entities returns for a text has offsets with
\* 0 <= start < end <= len(text), and text[start:end] contains the entity's
\* value, compared case-insensitively.
C16_EntityOffsetsValid ==
    applied.fn = "extract_entities"
    => \A i \in 1..Len(applied.result) :
          LET entity == applied.result[i]
              text == applied.arg.text
          IN  /\ 0 <= entity.start_position
              /\ entity.start_position < entity.end_position
              /\ entity.end_position <= Len(text)
              /\ Contains(Lower(Slice(text, entity.start_position,
                                      entity.end_position)),
                          Lower(entity.entity_value))

\* extract_entities was handed two candidates and returned one entity, not at
\* the start of the text, with an upper-case character in its value.
C16_Witness ==
    /\ applied.fn = "extract_entities"
    /\ Len(applied.arg.found) = 2
    /\ Len(applied.result) = 1
    /\ applied.result[1].start_position > 0
    /\ \E i \in 1..Len(applied.result[1].entity_value) :
          applied.result[1].entity_value[i] = "B"

\* The index of a category in ClauseTypes.
IndexOfType(primary_type) == CHOOSE t \in TypeIndex : ClauseTypes[t] = primary_type

\* C17: classify_clause returns confidence 0 exactly when primary_type is
\* unknown, and a primary_type that is not unknown comes with a confidence
\* of at least 0.1 that equals the normalized score of that category.
C17_ConfidenceIsNormalizedScore ==
    applied.fn = "classify_clause"
    => LET r == applied.result
       IN  /\ ( r.confidence.num = 0 <=> r.primary_type = "unknown" )
           /\ r.primary_type # "unknown"
                => /\ ~FracLess(r.confidence, Frac(1, 10))
                   /\ FracEq(r.confidence,
                             r.classification_scores[IndexOfType(r.primary_type)]
                                 .normalized_score)

\* C17 as amended: the confidence is the normalized score of the category
\* rounded to 3 decimals.
C17_ConfidenceIsRoundedScore ==
    applied.fn = "classify_clause"
    => LET r == applied.result
       IN  /\ ( r.confidence.num = 0 <=> r.primary_type = "unknown" )
           /\ r.primary_type # "unknown"
                => /\ ~FracLess(r.confidence, Frac(1, 10))
                   /\ r.confidence
                        = Round3(r.classification_scores[IndexOfType(r.primary_type)]
                                     .normalized_score)

\* A clause of 60 words classified as commercial terms on one keyword.
C17_Witness ==
    /\ applied.fn = "classify_clause"
    /\ applied.arg.kind = "text"
    /\ applied.arg.word_count = 60
    /\ applied.result.primary_type = "commercial_terms"
    /\ applied.result.confidence = Frac(667, 1000)

\* C18: batch_classify_clauses returns one result per clause, in input
\* order, result i tagged clause_index = i; the result of a clause whose
\* classification fails is the unknown classification, and every result is
\* what the clause gets when classified alone, whatever the other clauses.
C18_BatchKeepsOrderAndIsolatesFailure ==
    applied.fn = "batch_classify_clauses"
    => /\ Len(applied.result) = Len(applied.arg)
       /\ \A i \in 1..Len(applied.result) :
             LET r == applied.result[i]
                 alone == batch_classify_clauses(<< applied.arg[i] >>)[1]
             IN  /\ r.clause_index = i - 1
                 /\ applied.arg[i].kind = "raises"
                      => /\ r.primary_type = "unknown"
                         /\ r.confidence.num = 0
                 /\ \A k \in DOMAIN alone \ { "clause_index" } : r[k] = alone[k]

\* A batch of three clauses, the second failing, the third classified.
C18_Witness ==
    /\ applied.fn = "batch_classify_clauses"
    /\ Len(applied.arg) = 3
    /\ applied.arg[2].kind = "raises"
    /\ Len(applied.result) = 3
    /\ applied.result[2].primary_type = "unknown"
    /\ applied.result[3].primary_type = "safety_compliance"
    /\ applied.result[3].clause_index = 2

\* C19: the document confidence process_textract_results reports is the
\* arithmetic mean of the confidences of all its pages, a page of confidence 0
\* included, to the three decimals the result carries, and 0 when there are no
\* pages.
C19_DocumentConfidenceIsMeanOfPages ==
    applied.fn = "process_textract_results" =>
        LET pages == applied.result.pages
            confidences == [ i \in 1..Len(pages) |-> pages[i].confidence ]
        IN  IF Len(pages) = 0
            THEN applied.result.confidence = 0
            ELSE applied.result.confidence
                   = Round3(Frac(SumInts(confidences), 1000 * Len(pages))).num

\* Some numbered, lettered or section-header match is found in the text.
AnyStrategyMatches(text) == \E pattern \in Patterns : findall(pattern, text) # << >>

\* C20: the clause segmenter splits by paragraphs exactly when none of the
\* numbered, lettered and section-header strategies finds a match: then the
\* candidates are exactly the blank-line-separated paragraphs of trimmed
\* length above 50, each once, numbered P1, P2, ... in document order, and
\* when a strategy matches no candidate comes from paragraph splitting.
C20_ParagraphSplitOnlyAsFallback ==
    applied.fn = "extract_clauses_by_pattern" =>
        LET text == applied.arg
            clauses == applied.result
            parts == split_blank_lines(text)
            kept == { i \in 1..Len(parts) : Len(Strip(parts[i])) > min_paragraph_length }
            rank(i) == Cardinality({ j \in kept : j <= i })
        IN  IF AnyStrategyMatches(text)
            THEN /\ clauses # << >>
                 /\ \A k \in 1..Len(clauses) :
                       clauses[k].extraction_method \in Patterns
            ELSE /\ Len(clauses) = Cardinality(kept)
                 /\ \A i \in kept :
                       /\ clauses[rank(i)].text = Strip(parts[i])
                       /\ clauses[rank(i)].clause_number = << "P", rank(i) >>
                       /\ clauses[rank(i)].extraction_method = "paragraph_split"

\* A text without a marker and of two blank-line-separated parts, the first
\* of 50 characters and the second longer: the second is the one candidate, P1.
C20_Witness ==
    /\ applied.fn = "extract_clauses_by_pattern"
    /\ ~ AnyStrategyMatches(applied.arg)
    /\ Len(split_blank_lines(applied.arg)) = 2
    /\ Len(Strip(split_blank_lines(applied.arg)[1])) = min_paragraph_length
    /\ Len(applied.result) = 1
    /\ applied.result[1].clause_number = << "P", 1 >>
    /\ applied.result[1].text = Strip(split_blank_lines(applied.arg)[2])

\* C21: a clause candidate shorter than the minimum viable length is
\* discarded before classification. Whatever positive value that length has,
\* no clause the stage classifies has an empty text.
C21_ShortCandidatesNotClassified ==
    applied.fn = "_extract_clauses" =>
        \E min_viable_length \in 1..min_document_length :
            \A i \in 1..Len(applied.result.clauses) :
                applied.result.clauses[i].length >= min_viable_length

\* C22: intake of a file that fails validation returns INVALID_FILE after
\* exactly one attempt and no wait, and leaves every store as it was: no
\* blob, no document record, no OCR job, no event.
C22_InvalidFileLeavesStoresUnchanged ==
    [][ (calls' # calls /\ resp'.stage = "document_ingestion"
           /\ resp'.input = "invalid")
        => /\ resp'.out = "failure"
           /\ resp'.code = "INVALID_FILE"
           /\ resp'.attempts = 1
           /\ resp'.delays = << >>
           /\ resp'.trace = << >>
           /\ UNCHANGED << status, rawBlobs, ocrJobs, processed, clauseRows,
                           entityRows, embeddingRows, mappingRows,
                           analysisRows, reportRows, reportBlobs, events >> ]_vars

\* An invalid file arrives after a document was uploaded and stored.
C22_Witness ==
    /\ resp.stage = "document_ingestion"
    /\ resp.input = "invalid"
    /\ resp.code = "INVALID_FILE"
    /\ rawBlobs # {}
    /\ ocrJobs # {}

\* The run of _extract_clauses on the same input with no fault.
WithoutFault ==
    handler_extract_clauses(1, applied.arg.length, applied.arg.llm,
                            applied.arg.pattern, StageFault("none", 0))

C24_MergeOfTwoEntities ==
    (applied.fn = "merge_entities" /\ Len(applied.arg) = 2) =>
        LET first == applied.arg[1]
            second == applied.arg[2]
            current == IF second.start_position < first.start_position
                       THEN second ELSE first
            next == IF second.start_position < first.start_position
                    THEN first ELSE second
        IN  IF /\ next.start_position <= current.end_position
               /\ next.end_position >= current.start_position
            THEN applied.result
                   = << IF next.confidence > current.confidence
                        THEN next ELSE current >>
            ELSE applied.result = << current, next >>

\* Two entities handed in with the later one first: [1,2) of confidence 0.5
\* and [0,1) of confidence 0.9 touch, and only the second is kept.
C24_Witness ==
    /\ applied.fn = "merge_entities"
    /\ applied.n = 1
    /\ Len(applied.arg) = 2
    /\ applied.arg[1].start_position = 1
    /\ applied.arg[1].end_position = 2
    /\ applied.arg[1].confidence = 50
    /\ applied.arg[2].start_position = 0
    /\ applied.arg[2].end_position = 1
    /\ applied.arg[2].confidence = 90
    /\ applied.result = << applied.arg[2] >>

\* C25: the safety agent looks at the mappings of category
\* safety_compliance only, reports one gap of severity medium for each of
\* them with similarity below 0.8, in their order, gives risk_score =
\* max(0.3, 1 - gaps / max(1, filtered count)), and risk_level high below
\* 0.6, medium from 0.6 to below 0.8 and low from 0.8 on; without a safety
\* mapping the score is 1.0 and the level low.
C25_SafetyAgentScore ==
    applied.fn = "safety_analyze_compliance" =>
        LET mappings == applied.arg
            result == applied.result
            filtered == { i \in 1..Len(mappings) :
                            mappings[i].compliance_category = "safety_compliance" }
            below == { i \in filtered : mappings[i].similarity_score < 80 }
            count == IF Cardinality(filtered) > 1 THEN Cardinality(filtered) ELSE 1
            gaps == Cardinality(below)
            \* 1 - gaps / count against 3 / 10
            score == IF 10 * (count - gaps) > 3 * count
                     THEN Frac(count - gaps, count) ELSE Frac(3, 10)
            rank(i) == Cardinality({ j \in below : j <= i })
        IN  /\ result.mappings_analyzed = Cardinality(filtered)
            /\ Len(result.compliance_gaps) = gaps
            /\ \A i \in below :
                  /\ result.compliance_gaps[rank(i)].clause_id = mappings[i].clause_id
                  /\ result.compliance_gaps[rank(i)].severity = "medium"
            /\ result.risk_score.num * score.den = score.num * result.risk_score.den
            /\ result.risk_level
                 = IF 10 * score.num < 6 * score.den THEN "high"
                   ELSE IF 10 * score.num < 8 * score.den THEN "medium"
                   ELSE "low"
            /\ filtered = {} => /\ result.risk_score = Frac(1, 1)
                                /\ result.risk_level = "low"

\* Three safety mappings, one of them below 0.8, and nothing else: one gap,
\* score 2/3, level medium.
C25_Witness ==
    /\ applied.fn = "safety_analyze_compliance"
    /\ Len(applied.arg) = 3
    /\ applied.result.mappings_analyzed = 3
    /\ Len(applied.result.compliance_gaps) = 1
    /\ applied.result.risk_score = Frac(2, 3)
    /\ applied.result.risk_level = "medium"

\* C26: on a document text of at least 100 characters for which the LLM
\* path yields fewer than 2 clauses, extract_clauses returns the clauses
\* parsed from the LLM response together with every clause of the pattern
\* extraction, each entry a clause record with a text.
C26_FallbackKeepsLlmClauses ==
    (/\ applied.fn = "_extract_clauses"
     /\ applied.arg.length >= min_document_length
     /\ ~ applied.arg.llm.raises
     /\ Len(applied.arg.llm.clauses) < 2) =>
        LET returned == applied.result.langchain_results.clauses
            parsed == applied.arg.llm.clauses
            found == applied.arg.pattern
        IN  /\ Len(returned) = Len(parsed) + Len(found)
            /\ \A i \in 1..Len(parsed) : returned[i] = parsed[i]
            /\ \A i \in 1..Len(found) : returned[Len(parsed) + i] = found[i]
            /\ \A i \in 1..Len(returned) : returned[i].kind = "clause"

\* C27: every entity _merge_entities discards overlaps an entity of the
\* output whose confidence is at least as high; none is lost only through an
\* overlap with an entity that is itself discarded later in the scan.
C27_DiscardedOverlapsKept ==
    (applied.fn = "merge_entities" /\ applied.n = 1) =>
        \A i \in 1..Len(applied.arg) :
            LET x == applied.arg[i]
            IN  \E j \in 1..Len(applied.result) :
                   LET y == applied.result[j]
                   IN  \/ y = x
                       \/ /\ y.start_position <= x.end_position
                          /\ x.start_position <= y.end_position
                          /\ y.confidence >= x.confidence

C29_RetryWithBackoff ==
    resp.stage \in { "document_ingestion", "clause_extraction" } =>
        /\ resp.attempts \in 1..(max_retries + 1)
        /\ Len(resp.outs) = resp.attempts
        /\ \A a \in 1..(resp.attempts - 1) : resp.outs[a] = "raise"
        /\ resp.outs[resp.attempts] = resp.out
        /\ resp.delays = [ a \in 1..(resp.attempts - 1) |->
                             backoff_factor * (2 ^ (a - 1)) ]
        /\ resp.out = "raise" => resp.attempts = max_retries + 1

\* A wrapped handler raised twice and returned on its third call, after
\* waits of 1 and 2.
C29_Witness ==
    /\ resp.stage \in { "document_ingestion", "clause_extraction" }
    /\ resp.attempts = max_retries + 1
    /\ resp.out # "raise"
    /\ resp.delays = << 1, 2 >>

C1_NoDuplicateRows ==
    /\ \A i, j \in 1..Len(clauseRows) :
          clauseRows[i].clause_id = clauseRows[j].clause_id => i = j
    /\ \A i, j \in 1..Len(entityRows) :
          ( entityRows[i].clause_id = entityRows[j].clause_id
            /\ entityRows[i].ordinal = entityRows[j].ordinal ) => i = j
    /\ \A i, j \in 1..Len(embeddingRows) :
          embeddingRows[i].clause_id = embeddingRows[j].clause_id => i = j
    /\ \A i, j \in 1..Len(mappingRows) :
          ( mappingRows[i].clause_id = mappingRows[j].clause_id
            /\ mappingRows[i].regulation_id = mappingRows[j].regulation_id ) => i = j
    /\ \A i, j \in 1..Len(analysisRows) :
          analysisRows[i].analysis_id = analysisRows[j].analysis_id => i = j

\* C2: the status of a document changes to a status of the lifecycle order
\* only from the exact predecessor of that status in the order, so it never
\* moves backward; any other attempt leaves it unchanged.
C2_StatusOnlyFromPredecessor ==
    [][ \A d \in DocIds :
          ( status[d] # "absent" /\ status'[d] # status[d] /\ status'[d] # "failed" )
          => ( Rank(status[d]) > 0 /\ Rank(status'[d]) = Rank(status[d]) + 1 ) ]_vars

\* C3: failed is terminal: once the status of a document is failed, no
\* invocation changes it or stores a further output for the document.
C3_FailedIsTerminal ==
    [][ \A d \in DocIds :
          status[d] = "failed"
          => /\ status'[d] = "failed"
             /\ processed'[<< d, "ocr_results" >>] = processed[<< d, "ocr_results" >>]
             /\ processed'[<< d, "clause_extraction" >>] = processed[<< d, "clause_extraction" >>]
             /\ RowsOfDocument(clauseRows', d) = RowsOfDocument(clauseRows, d)
             /\ RowsOfDocument(analysisRows', d) = RowsOfDocument(analysisRows, d) ]_vars

\* C4: an invocation of a pipeline stage that returns an error response for
\* a document whose record exists leaves that document's status failed (a
\* rejected file is a validation error, before any record).
C4_StageErrorMarksFailed ==
    ( /\ resp.stage \in PipelineStages
      /\ resp.out = "failure"
      /\ resp.code # "INVALID_FILE"
      /\ resp.doc # 0
      /\ status[resp.doc] # "absent" )
    => status[resp.doc] = "failed"

\* C5: when publishing the completion event fails, the invocation still
\* returns success, in every stage, and what it persisted stays.
C5_PublishFailureIsNotFatal ==
    ( /\ resp.stage \in PipelineStages
      /\ \E i \in 1..Len(resp.trace) : resp.trace[i].op = "emit_failed" )
    => /\ resp.out = "success"
       /\ TraceHas("persist", "analysis")
            => \E i \in 1..Len(analysisRows) : analysisRows[i].document_id = resp.doc
       /\ TraceHas("persist", "ocr_results")
            => processed[<< resp.doc, "ocr_results" >>] # "none"

\* C6: every stage that returns success has written its own target status to
\* the document record (so that the status can go from uploaded to
\* report_generated stage by stage).
C6_SuccessWroteTarget ==
    ( resp.stage \in Stages /\ resp.out = "success" )
    => \E s \in TargetStatuses(resp.stage) : TraceHas("status", s)

\* C7: clause extraction of an existing document whose OCR result has text
\* with at least one clause, every collaborator call succeeding, stores the
\* clauses, sets the status clause_extraction_completed and returns success.
C7_ExtractionSucceeds ==
    ( /\ resp.stage = "clause_extraction"
      /\ resp.input = "text_with_clauses"
      /\ resp.cause \notin CollaboratorCalls
      /\ resp.attempts = 1
      /\ resp.out # "raise" )
    => /\ resp.out = "success"
       /\ status[resp.doc] = "clause_extraction_completed"
       /\ RowsOfDocument(clauseRows, resp.doc) # << >>

\* C8: an invocation that returns success with a working event bus has put
\* on the bus an event naming the document, the stage and the status it
\* wrote to the document record in this invocation.
C8_SuccessEmittedWrittenStatus ==
    ( /\ resp.stage \in PipelineStages
      /\ resp.out = "success"
      /\ ~TraceHas("emit_failed", "put_events") )
    => \E s \in Statuses :
          /\ TraceHas("status", s)
          /\ TraceHas("emit", s)
          /\ \E i \in 1..Len(events) :
                /\ events[i].document_id = resp.doc
                /\ events[i].status = s

\* C9: a stage persists its outputs before it writes the new status: no
\* invocation persists an output after it has advanced the status, and a
\* document in status processing has its OCR result stored, one in status
\* clause_extraction_completed its clauses.
C9_PersistBeforeStatus ==
    /\ \A i, j \in 1..Len(resp.trace) :
          ( /\ resp.trace[i].op = "status"
            /\ resp.trace[i].arg # "failed"
            /\ resp.trace[j].op = "persist" ) => j < i
    /\ \A d \in DocIds :
          /\ status[d] = "processing" => processed[<< d, "ocr_results" >>] # "none"
          /\ status[d] = "clause_extraction_completed"
               => processed[<< d, "clause_extraction" >>] # "none"

\* The collaborator calls of intake and clause extraction whose failure is
\* transient: storage, database, the OCR request.
TransientCalls ==
    { "store_raw_document", "create_document", "start_document_text_detection",
      "get_document", "get_processed_document", "store_processed_document",
      "bulk_insert_clauses", "bulk_insert_entities", "update_document_status" }

\* C10: intake and clause extraction report a failure caused by a transient
\* collaborator failure only after the body has run max_retries + 1 times,
\* with waits of backoff_factor * 2^attempt between the runs.
C10_TransientFailureRetried ==
    ( /\ resp.stage \in { "document_ingestion", "clause_extraction" }
      /\ resp.out \in { "failure", "raise" }
      /\ resp.cause \in TransientCalls )
    => /\ resp.attempts = max_retries + 1
       /\ resp.delays = [ a \in 1..max_retries |-> backoff_factor * 2 ^ (a - 1) ]

====
